---- MODULE Spec2Model ----
(***************************************************************************)
(* A model of the decision core of the trading dashboard:                  *)
(*   automation_tab.py   _sma, _rsi, _signal_for, _position_targets,       *)
(*                       _build_tickets                                    *)
(*   options_screener.py filter_and_score_options (same text in            *)
(*                       dashboard_tab.py)                                 *)
(*                                                                         *)
(* Python floats are modelled as exact rational numbers (real arithmetic,  *)
(* no binary rounding).  A number is a record [i, n, d] that stands for    *)
(* i + n/d with 0 <= n < d and n/d in lowest terms, so that the value      *)
(* 100 - 100/(1 + x/1e-9) computed by _rsi stays inside TLC's integers.     *)
(* NaN is a value of its own (the sentinel _sma returns).  A Python dict   *)
(* is a function from its keys; an exception is a result of kind "raise".  *)
(***************************************************************************)
EXTENDS Integers, Sequences, FiniteSets, TLC

VARIABLES
    sz_in,   \* arguments of the pending/last _position_targets call
    sz_out,  \* its result (NoCall before the call)
    tk_in,   \* arguments of the _build_tickets call
    tk_out,  \* its result
    sg_in,   \* the rules and the data frame _history returns, for _signal_for
    sg_out,  \* its result
    sc_in,   \* the option chain given to filter_and_score_options
    sc_out,  \* its result
    ind_in,  \* the series and the window given to _sma or _rsi
    ind_out, \* its result
    au_in,   \* the strategy, the session state and the provider's answers
             \* for one pass of render_automation_tab
    au_out,  \* what the pass computed
    ca_in,   \* the cached provider wrapper that is being called
    clock,   \* the time, in seconds
    cache,   \* the entry st.cache_data holds for the wrapper, if any
    ca_out,  \* what the last call of the wrapper returned
    app_in,  \* how the imports and the render functions of the tabs behave
    app_pc,  \* the statement of app.py that runs next
    app_out, \* the functions app.py holds and what it has put on the page
    ds_session, \* st.session_state of the dashboard (its swing trades)
    ds_file,    \* the content of portfolio_data.json, if the file exists
    ds_out      \* how the last run of render_dashboard ended

\* the state of st.cache_data around one provider wrapper
cacheVars == <<ca_in, clock, cache, ca_out>>

\* one run of the app.py script
appVars == <<app_in, app_pc, app_out>>

\* the dashboard's session state and data file
dashVars == <<ds_session, ds_file, ds_out>>

vars == <<sz_in, sz_out, tk_in, tk_out, sg_in, sg_out, sc_in, sc_out,
          ind_in, ind_out, au_in, au_out, cacheVars, appVars, dashVars>>

NoCall == [kind |-> "none"]

\* The dashboard is not open.
DashIdle == ds_session = NoCall /\ ds_file = NoCall /\ ds_out = NoCall

\* app.py does not run.
AppIdle == app_in = NoCall /\ app_pc = "idle" /\ app_out = NoCall

\* No cached wrapper is called.
CacheIdle == ca_in = NoCall /\ clock = 0 /\ cache = NoCall /\ ca_out = NoCall

-----------------------------------------------------------------------------
(* Exact arithmetic standing for Python float arithmetic.                  *)

Abs(x) == IF x < 0 THEN -x ELSE x

RECURSIVE GCD(_, _)
GCD(a, b) == IF b = 0 THEN a ELSE GCD(b, a % b)

\* i + n/d from any integer i, any integer n and d > 0.
Frac(i, n, d) ==
    LET q == n \div d
        r == n % d
        g == GCD(r, d)
    IN  [i |-> i + q, n |-> r \div g, d |-> d \div g]

R(k) == [i |-> k, n |-> 0, d |-> 1]
Ratio(p, q) == Frac(0, p, q)

\* The numerator of the improper fraction Top(a)/a.d.
Top(a) == a.i * a.d + a.n

RAdd(a, b) == Frac(a.i + b.i, a.n * b.d + b.n * a.d, a.d * b.d)
RSub(a, b) == Frac(a.i - b.i, a.n * b.d - b.n * a.d, a.d * b.d)

RMul(a, b) ==
    LET ta == Top(a)
        tb == Top(b)
        g1 == GCD(Abs(ta), b.d)
        g2 == GCD(Abs(tb), a.d)
    IN  Frac(0, (ta \div g1) * (tb \div g2), (a.d \div g2) * (b.d \div g1))

\* 1/b for b # 0.
RInv(b) ==
    LET tb == Top(b)
    IN  IF tb > 0 THEN Frac(0, b.d, tb) ELSE Frac(0, -b.d, -tb)

RDiv(a, b) == RMul(a, RInv(b))

\* n1/d1 < n2/d2 for proper fractions, by Euclid's algorithm (no products).
RECURSIVE FracLess(_, _, _, _)
FracLess(n1, d1, n2, d2) ==
    IF n2 = 0 THEN FALSE
    ELSE IF n1 = 0 THEN TRUE
    ELSE LET q1 == d1 \div n1
             q2 == d2 \div n2
         IN  IF q1 # q2 THEN q1 > q2
             ELSE FracLess(d2 % n2, n2, d1 % n1, n1)

RLess(a, b) == IF a.i # b.i THEN a.i < b.i ELSE FracLess(a.n, a.d, b.n, b.d)
RLeq(a, b) == ~RLess(b, a)
RMax(a, b) == IF RLess(a, b) THEN b ELSE a
RMin(a, b) == IF RLess(b, a) THEN b ELSE a
RAbs(a) == IF RLess(a, R(0)) THEN RSub(R(0), a) ELSE a

\* Python's min(a, b, c): the first smallest argument.
RMin3(a, b, c) == RMin(RMin(a, b), c)

\* sum of a sequence of floats
RECURSIVE RSum(_)
RSum(s) == IF s = <<>> THEN R(0) ELSE RAdd(s[1], RSum(Tail(s)))

\* int(x) for a float x: truncation toward zero.
PyInt(x) == IF x.i < 0 /\ x.n # 0 THEN x.i + 1 ELSE x.i

\* round(x, k) with 10^k = p: to the nearest multiple of 1/p, ties to even.
PyRound(x, p) ==
    LET y == RMul(x, R(p))
        half == Ratio(1, 2)
        f == [i |-> 0, n |-> y.n, d |-> y.d]
        up == IF RLess(half, f) THEN 1
              ELSE IF RLess(f, half) THEN 0
              ELSE IF y.i % 2 = 0 THEN 0 ELSE 1
    IN  Ratio(y.i + up, p)

-----------------------------------------------------------------------------
(* Python values.                                                          *)

\* None, as found in a dict value.
None == [none |-> TRUE]

\* A key a dict does not hold (in the enumeration of the dicts to call with).
Absent == [absent |-> TRUE]

\* d.get(k, default)
Get(d, k, default) == IF k \in DOMAIN d THEN d[k] ELSE default

\* The dict with no key, {}.
EmptyDict == [k \in {} |-> R(0)]

\* x or 0.0 for x a float or None
OrZero(x) == IF x = None \/ x = R(0) THEN R(0) ELSE x

\* sum(d.values())
RECURSIVE SumValues(_, _)
SumValues(d, keys) ==
    IF keys = {} THEN R(0)
    ELSE LET k == CHOOSE x \in keys : TRUE
         IN  RAdd(d[k], SumValues(d, keys \ {k}))

-----------------------------------------------------------------------------
(* automation_tab.py: sizing                                               *)

DefaultMaxBuy == 2500
DefaultMinCashReserve == 5000
\* the default max_position_pct, 0.25
DefaultMaxPositionPct == Ratio(25, 100)

\* risk.get("max_position_pct", 0.25) * max(1.0, portfolio_value)
MaxPosVal(risk, portfolio_value) ==
    RMul(Get(risk, "max_position_pct", DefaultMaxPositionPct),
         RMax(R(1), portfolio_value))

MaxBuyOf(risk) == Get(risk, "max_buy_usd", R(DefaultMaxBuy))

MinCashReserveOf(risk) == Get(risk, "min_cash_reserve_usd", R(DefaultMinCashReserve))

\* room = max(0.0, max_pos_val - cur_val)
Room(max_pos_val, current_values, t) ==
    RMax(R(0), RSub(max_pos_val, OrZero(Get(current_values, t, R(0)))))

\* spare = max(0.0, cash_on_hand - min_cash_reserve)
Spare(cash_on_hand, risk) == RMax(R(0), RSub(cash_on_hand, MinCashReserveOf(risk)))

\* target = {t: alloc_long * weights.get(t, 0.0) for t in weights.keys()}
RawTargets(cash_on_hand, long_term_pct, weights) ==
    LET total_deploy == RMax(R(0), cash_on_hand)
        alloc_long == RMul(total_deploy, RDiv(long_term_pct, R(100)))
    IN  [t \in DOMAIN weights |-> RMul(alloc_long, weights[t])]

\* A faulty clamp that forgets max_buy (the position cap C2 must reject it).
ClampOne_NoMaxBuy(raw, max_buy, room, px) ==
    IF RLeq(px, R(0)) THEN R(0) ELSE RMin(raw, room)

\* A faulty clamp that zeroes the target only for a price of exactly 0 (C22
\* must reject it).
ClampOne_ZeroPriceOnly(raw, max_buy, room, px) ==
    IF px = R(0) THEN R(0) ELSE RMin3(raw, max_buy, room)

\* one pass of the clamp loop: min(target[t], max_buy, room), 0.0 if px <= 0
ClampOne(raw, max_buy, room, px) ==
    IF RLeq(px, R(0)) THEN R(0) ELSE RMin3(raw, max_buy, room)

ClampTargets(target, portfolio_value, prices, current_values, risk) ==
    LET max_pos_val == MaxPosVal(risk, portfolio_value)
    IN  [t \in DOMAIN target |->
            ClampOne(target[t], MaxBuyOf(risk),
                     Room(max_pos_val, current_values, t),
                     OrZero(Get(prices, t, R(0))))]

\* A faulty cash buffer that never scales (the reserve invariant C1 must
\* reject it).
EnsureCashBuffer_NoScale(target, spare) == target

\* A faulty cash buffer that caps each target at spare instead of scaling
\* them all (C23 must reject it).
EnsureCashBuffer_CapEach(target, spare) ==
    LET total_buys == SumValues(target, DOMAIN target)
    IN  IF RLess(spare, total_buys) /\ RLess(R(0), total_buys)
        THEN [t \in DOMAIN target |-> RMin(target[t], spare)]
        ELSE target

\* the cash buffer: scale every target by spare / total_buys
EnsureCashBuffer(target, spare) ==
    LET total_buys == SumValues(target, DOMAIN target)
    IN  IF RLess(spare, total_buys) /\ RLess(R(0), total_buys)
        THEN LET scale == RDiv(spare, total_buys)
             IN  [t \in DOMAIN target |-> RMul(target[t], scale)]
        ELSE target

_position_targets(portfolio_value, cash_on_hand, long_term_pct, weights, prices, current_values, risk) ==
    EnsureCashBuffer(
        ClampTargets(RawTargets(cash_on_hand, long_term_pct, weights),
                     portfolio_value, prices, current_values, risk),
        Spare(cash_on_hand, risk))

\* The arguments the sizer is called with.
Tickers == {"PLTR", "BTC-USD"}

\* dicts with keys among the tickers: PLTR's value from A, BTC-USD's from B,
\* Absent standing for a missing key
DictsOver(A, B) ==
    LET pick(a, b) == [t \in {x \in Tickers : IF x = "PLTR" THEN a # Absent
                                                ELSE b # Absent} |->
                          IF t = "PLTR" THEN a ELSE b]
    IN  {pick(a, b) : a \in A, b \in B}

SizerWeights == DictsOver({Absent, R(0), Ratio(1, 2), R(1)},
                          {Absent, Ratio(-1, 2), R(1)})
SizerPrices == DictsOver({Absent, R(0), R(250)}, {None, R(-1), R(50000)})
SizerCurrent == DictsOver({Absent, R(4000)}, {Absent, R(0)})
SizerCash == {R(-1000), R(0), R(4000), R(6000), R(10000)}
SizerPct == {R(0), R(40), R(100)}
SizerPortfolio == {R(0), R(20000)}
SizerRisk ==
    LET pick(mb, mr, mp) ==
            [k \in ({"max_buy_usd" : x \in {mb} \ {Absent}}
                    \cup {"min_cash_reserve_usd" : x \in {mr} \ {Absent}}
                    \cup {"max_position_pct" : x \in {mp} \ {Absent}}) |->
                IF k = "max_buy_usd" THEN mb
                ELSE IF k = "min_cash_reserve_usd" THEN mr ELSE mp]
    IN  {pick(mb, mr, mp) : mb \in {Absent, R(0), R(1000)},
                            mr \in {Absent, R(0)},
                            mp \in {Absent, R(0)}}

SizerInputs ==
    [kind : {"args"}, portfolio_value : SizerPortfolio, cash_on_hand : SizerCash,
     long_term_pct : SizerPct, weights : SizerWeights, prices : SizerPrices,
     current_values : SizerCurrent, risk : SizerRisk]

\* _position_targets is called and returns.
PositionTargets ==
    /\ sz_in # NoCall
    /\ sz_out = NoCall
    /\ sz_out' = [kind |-> "ok",
                  target |-> _position_targets(sz_in.portfolio_value,
                                 sz_in.cash_on_hand, sz_in.long_term_pct,
                                 sz_in.weights, sz_in.prices,
                                 sz_in.current_values, sz_in.risk)]
    /\ UNCHANGED <<sz_in, tk_in, tk_out, sg_in, sg_out, sc_in, sc_out,
                 ind_in, ind_out, au_in, au_out,
                 cacheVars,
                 appVars,
                 dashVars>>

InitSizer ==
    /\ sz_in \in SizerInputs /\ sz_out = NoCall
    /\ tk_in = NoCall /\ tk_out = NoCall
    /\ sg_in = NoCall /\ sg_out = NoCall
    /\ sc_in = NoCall /\ sc_out = NoCall
    /\ ind_in = NoCall /\ ind_out = NoCall
    /\ au_in = NoCall /\ au_out = NoCall
    /\ CacheIdle
    /\ AppIdle
    /\ DashIdle

NextSizer == PositionTargets

SpecSizer == InitSizer /\ [][NextSizer]_vars

\* The claim C1 speaks of non-negative weights, long_term_pct and risk
\* limits.
SizerArgsNonNegative(a) ==
    /\ \A t \in DOMAIN a.weights : RLeq(R(0), a.weights[t])
    /\ RLeq(R(0), a.long_term_pct)
    /\ \A k \in DOMAIN a.risk : RLeq(R(0), a.risk[k])

\* C1: for every call of _position_targets with non-negative weights,
\* long_term_pct and risk limits, the sum of the returned targets is at most
\* max(0, cash_on_hand - min_cash_reserve_usd), and when cash_on_hand is at
\* most min_cash_reserve_usd every returned target is 0.
C1_ReserveInvariant ==
    (sz_out.kind = "ok" /\ SizerArgsNonNegative(sz_in)) =>
        LET target == sz_out.target
            reserve == MinCashReserveOf(sz_in.risk)
            bound == RMax(R(0), RSub(sz_in.cash_on_hand, reserve))
        IN  /\ RLeq(SumValues(target, DOMAIN target), bound)
            /\ RLeq(sz_in.cash_on_hand, reserve) =>
                   \A t \in DOMAIN target : target[t] = R(0)

\* The reserve binds: two positive clamped targets worth 3600 are scaled
\* down to the spare cash of 1000.
C1_Witness ==
    /\ sz_out.kind = "ok"
    /\ SizerArgsNonNegative(sz_in)
    /\ sz_in.cash_on_hand = R(6000)
    /\ MinCashReserveOf(sz_in.risk) = R(5000)
    /\ DOMAIN sz_out.target = Tickers
    /\ \A t \in Tickers : RLess(R(0), sz_out.target[t])
    /\ SumValues(sz_out.target, Tickers) = R(1000)

\* C2: for every ticker in weights (of whatever sign), with risk limits
\* that are not negative, the returned target is at most max_buy_usd and at
\* most max(0, max_position_pct * max(1, portfolio_value) - current_values[t]).
C2_PositionCap ==
    sz_out.kind = "ok" =>
        \A t \in DOMAIN sz_in.weights :
            LET cap == RMul(Get(sz_in.risk, "max_position_pct", Ratio(1, 4)),
                            RMax(R(1), sz_in.portfolio_value))
                cur == OrZero(Get(sz_in.current_values, t, R(0)))
            IN  /\ t \in DOMAIN sz_out.target
                /\ RLeq(sz_out.target[t], MaxBuyOf(sz_in.risk))
                /\ RLeq(sz_out.target[t], RMax(R(0), RSub(cap, cur)))

\* Both caps bind in some call: one target sits at max_buy_usd although its
\* raw allocation was larger, another at the room under the position cap.
C2_Witness ==
    /\ sz_out.kind = "ok"
    /\ SizerArgsNonNegative(sz_in)
    /\ DOMAIN sz_out.target = Tickers
    /\ sz_out.target["BTC-USD"] = MaxBuyOf(sz_in.risk)
    /\ RLess(R(0), sz_out.target["BTC-USD"])
    /\ RLess(sz_out.target["BTC-USD"],
             RawTargets(sz_in.cash_on_hand, sz_in.long_term_pct, sz_in.weights)["BTC-USD"])
    /\ sz_in.current_values = [t \in {"PLTR"} |-> R(4000)]
    /\ sz_out.target["PLTR"] = R(1000)
    /\ RLess(sz_out.target["PLTR"], MaxBuyOf(sz_in.risk))

-----------------------------------------------------------------------------
(* automation_tab.py: tickets                                              *)

\* t.endswith(suffix)
EndsWith(t, suffix) ==
    /\ Len(t) >= Len(suffix)
    /\ SubSeq(t, Len(t) - Len(suffix) + 1, Len(t)) = suffix

\* A faulty quantity that rounds to 3 decimal places for every ticker (C11
\* must reject it).
Qty_AlwaysRound(t, dollars, px) == PyRound(RDiv(dollars, px), 1000)

\* A faulty quantity that buys one share more than the truncation (C28 as
\* amended must reject it).
Qty_OneMore(t, dollars, px) ==
    LET qty == RDiv(dollars, px)
    IN  IF EndsWith(t, "-USD") THEN PyRound(qty, 1000) ELSE R(PyInt(qty) + 1)

\* qty = dollars / px; round(qty, 3) if t.endswith("-USD") else int(qty)
Qty(t, dollars, px) ==
    LET qty == RDiv(dollars, px)
    IN  IF EndsWith(t, "-USD") THEN PyRound(qty, 1000) ELSE R(PyInt(qty))

\* A faulty loop body without the test qty <= 0 (C3 must reject it).
TicketOf_KeepZeroQty(s, target_dollars, prices) ==
    LET t == s["ticker"]
        dollars == Get(target_dollars, t, R(0))
        px == Get(prices, t, R(0))
    IN  IF s["action"] # "BUY" THEN <<>>
        ELSE IF RLeq(px, R(0)) \/ RLeq(dollars, R(0)) THEN <<>>
        ELSE <<[ticker |-> t, action |-> "BUY", qty |-> Qty(t, dollars, px),
                est_price |-> px, dollars |-> dollars,
                reason |-> Get(s, "reason", "")]>>

\* A faulty loop body without the test on the action (C10 must reject it).
TicketOf_AnyAction(s, target_dollars, prices) ==
    LET t == s["ticker"]
        dollars == Get(target_dollars, t, R(0))
        px == Get(prices, t, R(0))
    IN  IF RLeq(px, R(0)) \/ RLeq(dollars, R(0)) THEN <<>>
        ELSE IF RLeq(Qty(t, dollars, px), R(0)) THEN <<>>
        ELSE <<[ticker |-> t, action |-> "BUY", qty |-> Qty(t, dollars, px),
                est_price |-> px, dollars |-> dollars,
                reason |-> Get(s, "reason", "")]>>

\* The body of the loop over the signals: the tickets (none or one) that
\* the signal s appends.
TicketOf(s, target_dollars, prices) ==
    LET t == s["ticker"]
        dollars == Get(target_dollars, t, R(0))
        px == Get(prices, t, R(0))
    IN  IF s["action"] # "BUY" THEN <<>>
        ELSE IF RLeq(px, R(0)) \/ RLeq(dollars, R(0)) THEN <<>>
        ELSE IF RLeq(Qty(t, dollars, px), R(0)) THEN <<>>
        ELSE <<[ticker |-> t, action |-> "BUY", qty |-> Qty(t, dollars, px),
                est_price |-> px, dollars |-> dollars,
                reason |-> Get(s, "reason", "")]>>

RECURSIVE _build_tickets(_, _, _)
_build_tickets(signals, target_dollars, prices) ==
    IF signals = <<>> THEN <<>>
    ELSE TicketOf(Head(signals), target_dollars, prices)
             \o _build_tickets(Tail(signals), target_dollars, prices)

\* The arguments the builder is called with.
MaxSignals == 2

\* A signal dict; the one without a rationale has no "reason" key.
SignalDict(t, a, c, r) ==
    [ticker |-> t, action |-> a, confidence |-> c, reason |-> r]

SignalDictNoReason(t, a, c) == [ticker |-> t, action |-> a, confidence |-> c]

TicketSignals ==
    {SignalDict(t, "BUY", Ratio(1, 2), "price>3SMA") : t \in Tickers}
    \cup {SignalDict(t, "BUY", R(1), "price>3SMA, RSI14<35.0") : t \in Tickers}
    \cup {SignalDictNoReason(t, "BUY", R(1)) : t \in Tickers}
    \cup {SignalDict(t, "HOLD", R(0), "neutral") : t \in Tickers}

SeqsUpTo(S, n) == UNION {[1..k -> S] : k \in 0..n}

TicketTargets ==
    DictsOver({Absent, R(0), R(-50), R(100), Ratio(1000, 3), R(1000)},
              {Absent, R(10), R(40), R(60), R(100)})
TicketPrices == DictsOver({Absent, R(0), R(250)}, {R(-1), R(50000)})

TicketInputs ==
    [kind : {"args"}, signals : SeqsUpTo(TicketSignals, MaxSignals),
     target_dollars : TicketTargets, prices : TicketPrices]

\* _build_tickets is called and returns.
BuildTickets ==
    /\ tk_in # NoCall
    /\ tk_out = NoCall
    /\ tk_out' = [kind |-> "ok",
                  tickets |-> _build_tickets(tk_in.signals, tk_in.target_dollars,
                                             tk_in.prices)]
    /\ UNCHANGED <<sz_in, sz_out, tk_in, sg_in, sg_out, sc_in, sc_out,
                 ind_in, ind_out, au_in, au_out,
                 cacheVars,
                 appVars,
                 dashVars>>

InitTickets ==
    /\ sz_in = NoCall /\ sz_out = NoCall
    /\ tk_in \in TicketInputs /\ tk_out = NoCall
    /\ sg_in = NoCall /\ sg_out = NoCall
    /\ sc_in = NoCall /\ sc_out = NoCall
    /\ ind_in = NoCall /\ ind_out = NoCall
    /\ au_in = NoCall /\ au_out = NoCall
    /\ CacheIdle
    /\ AppIdle
    /\ DashIdle

NextTickets == BuildTickets

SpecTickets == InitTickets /\ [][NextTickets]_vars

\* The price, the target and the quantity the builder reads for a ticker are
\* not all positive.
Degenerate(t, a) ==
    LET dollars == Get(a.target_dollars, t, R(0))
        px == Get(a.prices, t, R(0))
    IN  \/ RLeq(px, R(0))
        \/ RLeq(dollars, R(0))
        \/ RLeq(IF EndsWith(t, "-USD") THEN PyRound(RDiv(dollars, px), 1000)
                ELSE R(PyInt(RDiv(dollars, px))), R(0))

\* C3: every emitted ticket has qty > 0, dollars > 0 and est_price > 0, and
\* a signal whose price, target dollars or rounded/truncated quantity is
\* <= 0 produces no ticket.
C3_TicketNonDegenerate ==
    tk_out.kind = "ok" =>
        /\ \A k \in 1..Len(tk_out.tickets) :
               LET tkt == tk_out.tickets[k]
               IN  /\ RLess(R(0), tkt.qty)
                   /\ RLess(R(0), tkt.dollars)
                   /\ RLess(R(0), tkt.est_price)
        /\ \A i \in 1..Len(tk_in.signals) :
               Degenerate(tk_in.signals[i]["ticker"], tk_in) =>
                   \A k \in 1..Len(tk_out.tickets) :
                       tk_out.tickets[k].ticker # tk_in.signals[i]["ticker"]

\* A BUY signal with price 250 and target 100 (quantity int(0.4) = 0) is
\* dropped while a BUY signal for another ticker gets its ticket.
C3_Witness ==
    /\ tk_out.kind = "ok"
    /\ Len(tk_in.signals) = 2
    /\ tk_in.signals[1]["ticker"] = "PLTR" /\ tk_in.signals[1]["action"] = "BUY"
    /\ tk_in.signals[2]["ticker"] = "BTC-USD" /\ tk_in.signals[2]["action"] = "BUY"
    /\ Get(tk_in.target_dollars, "PLTR", R(0)) = R(100)
    /\ Get(tk_in.prices, "PLTR", R(0)) = R(250)
    /\ Len(tk_out.tickets) = 1
    /\ tk_out.tickets[1].ticker = "BTC-USD"
    /\ tk_out.tickets[1].qty = Ratio(2, 1000)

\* The indices of the signals that get a ticket, in the order of the list.
RECURSIVE KeptFrom(_, _)
KeptFrom(a, i) ==
    IF i > Len(a.signals) THEN <<>>
    ELSE (IF a.signals[i]["action"] = "BUY"
             /\ ~Degenerate(a.signals[i]["ticker"], a)
          THEN <<i>> ELSE <<>>) \o KeptFrom(a, i + 1)

\* C10: the tickets are in the order of the input signals, at most one per
\* signal and none for a signal whose action is not BUY, and each carries
\* its signal's ticker and rationale unchanged.
C10_TicketOrder ==
    tk_out.kind = "ok" =>
        LET kept == KeptFrom(tk_in, 1)
        IN  /\ Len(tk_out.tickets) = Len(kept)
            /\ \A k \in 1..Len(kept) :
                   LET s == tk_in.signals[kept[k]]
                   IN  /\ s["action"] = "BUY"
                       /\ tk_out.tickets[k].ticker = s["ticker"]
                       /\ tk_out.tickets[k].reason =
                              (IF "reason" \in DOMAIN s THEN s["reason"] ELSE "")

\* Two BUY signals for different tickers with different rationales, a
\* ticket for each, in the signals' order.
C10_Witness ==
    /\ tk_out.kind = "ok"
    /\ Len(tk_in.signals) = 2
    /\ Len(tk_out.tickets) = 2
    /\ tk_out.tickets[1].ticker = "BTC-USD"
    /\ tk_out.tickets[2].ticker = "PLTR"
    /\ tk_out.tickets[1].reason = "price>3SMA, RSI14<35.0"
    /\ tk_out.tickets[2].reason = "price>3SMA"

\* q is dollars/px truncated to an integer, for dollars > 0 and px > 0:
\* a whole number with q * px <= dollars < (q + 1) * px.
IsTruncated(q, dollars, px) ==
    /\ q.n = 0
    /\ RLeq(RMul(q, px), dollars)
    /\ RLess(dollars, RMul(RAdd(q, R(1)), px))

\* q is dollars/px rounded to 3 decimal places: a whole number m of
\* thousandths with |m * px - 1000 * dollars| <= px / 2, m even on a tie.
IsRounded3(q, dollars, px) ==
    LET m == RMul(q, R(1000))
        twice == RMul(R(2), RAbs(RSub(RMul(m, px), RMul(R(1000), dollars))))
    IN  /\ m.n = 0
        /\ RLeq(twice, px)
        /\ twice = px => m.i % 2 = 0

\* A BUY signal for ticker t is in the list given to the builder.
BuySignalFor(t) ==
    \E i \in 1..Len(tk_in.signals) :
        tk_in.signals[i]["ticker"] = t /\ tk_in.signals[i]["action"] = "BUY"

\* C11: the quantity of a ticket is dollars/price rounded to 3 decimal
\* places when the ticker ends with "-USD" and truncated to an integer
\* otherwise; dollars 1000 at price 250 for an equity gives 4, dollars 100
\* at price 50000 for a "-USD" ticker gives 0.002.
C11_QuantityRule ==
    tk_out.kind = "ok" =>
        /\ \A k \in 1..Len(tk_out.tickets) :
               LET tkt == tk_out.tickets[k]
                   dollars == Get(tk_in.target_dollars, tkt.ticker, R(0))
                   px == Get(tk_in.prices, tkt.ticker, R(0))
               IN  /\ tkt.dollars = dollars /\ tkt.est_price = px
                   /\ IF EndsWith(tkt.ticker, "-USD")
                      THEN IsRounded3(tkt.qty, dollars, px)
                      ELSE IsTruncated(tkt.qty, dollars, px)
        /\ (/\ BuySignalFor("PLTR")
            /\ Get(tk_in.target_dollars, "PLTR", R(0)) = R(1000)
            /\ Get(tk_in.prices, "PLTR", R(0)) = R(250)) =>
               \E k \in 1..Len(tk_out.tickets) :
                   tk_out.tickets[k].ticker = "PLTR" /\ tk_out.tickets[k].qty = R(4)
        /\ (/\ BuySignalFor("BTC-USD")
            /\ Get(tk_in.target_dollars, "BTC-USD", R(0)) = R(100)
            /\ Get(tk_in.prices, "BTC-USD", R(0)) = R(50000)) =>
               \E k \in 1..Len(tk_out.tickets) :
                   tk_out.tickets[k].ticker = "BTC-USD"
                   /\ tk_out.tickets[k].qty = Ratio(2, 1000)

\* An equity ticket whose quantity is truncated (1000/3 dollars at 250 is
\* 1.33 shares, 1 is bought) beside a "-USD" ticket whose quantity is rounded
\* (60 dollars at 50000 is 0.0012 units, 0.001 is bought).
C11_Witness ==
    /\ tk_out.kind = "ok"
    /\ Len(tk_out.tickets) = 2
    /\ tk_out.tickets[1].ticker = "PLTR"
    /\ tk_out.tickets[1].dollars = Ratio(1000, 3)
    /\ tk_out.tickets[1].qty = R(1)
    /\ tk_out.tickets[2].ticker = "BTC-USD"
    /\ tk_out.tickets[2].dollars = R(60)
    /\ tk_out.tickets[2].qty = Ratio(1, 1000)

-----------------------------------------------------------------------------
(* automation_tab.py: indicators and signals                               *)

\* float("nan")
NaN == [nan |-> TRUE]

\* the last `window` values of a series
LastN(series, window) == SubSeq(series, Len(series) - window + 1, Len(series))

\* A faulty mean, of the whole series (C12 must reject it).
RollingMeanLast_WholeSeries(series, window) == RDiv(RSum(series), R(Len(series)))

\* series.rolling(window).mean().iloc[-1], for len(series) >= window >= 1
RollingMeanLast(series, window) == RDiv(RSum(LastN(series, window)), R(window))

_sma(series, window) ==
    IF Len(series) < window THEN NaN ELSE RollingMeanLast(series, window)

\* series.diff() from its second entry on (the first is NaN)
Diff(series) == [k \in 1..(Len(series) - 1) |-> RSub(series[k + 1], series[k])]

\* x.clip(lower=0.0)
ClipLower0(x) == [k \in 1..Len(x) |-> RMax(R(0), x[k])]

Negated(x) == [k \in 1..Len(x) |-> RSub(R(0), x[k])]

\* the 1e-9 that replaces a zero average loss
RsiEpsilon == Ratio(1, 1000000000)

DefaultRsiWindow == 14
DefaultRsiThreshold == 35

\* A faulty RSI without .replace(0, 1e-9) (C25 must reject it): a zero
\* average loss divides to inf, or to NaN when the average gain is zero too.
RsiValue_NoEpsilon(series, window) ==
    LET delta == Diff(series)
        up == ClipLower0(delta)
        down == ClipLower0(Negated(delta))
        roll_up == RollingMeanLast(up, window)
        roll_down == RollingMeanLast(down, window)
    IN  IF roll_down = R(0)
        THEN (IF roll_up = R(0) THEN NaN ELSE R(100))
        ELSE RSub(R(100), RDiv(R(100), RAdd(R(1), RDiv(roll_up, roll_down))))

\* lines 41-47 of _rsi: 100 - 100 / (1 + rs), for len(series) >= window + 1
RsiValue(series, window) ==
    LET delta == Diff(series)
        up == ClipLower0(delta)
        down == ClipLower0(Negated(delta))
        roll_up == RollingMeanLast(up, window)
        mean_down == RollingMeanLast(down, window)
        roll_down == IF mean_down = R(0) THEN RsiEpsilon ELSE mean_down
        rs == RDiv(roll_up, roll_down)
    IN  RSub(R(100), RDiv(R(100), RAdd(R(1), rs)))

\* A faulty RSI whose neutral value is for series shorter than window only
\* (C13 must reject it): on window values the rolling mean of the
\* differences is NaN.
_rsi_ShortByOne(series, window) ==
    IF Len(series) < window THEN R(50)
    ELSE IF Len(series) = window THEN NaN
    ELSE RsiValue(series, window)

\* A faulty RSI that reads a short series as fully oversold (C27 must
\* reject it).
_rsi_ShortIsZero(series, window) ==
    IF Len(series) < window + 1 THEN R(0) ELSE RsiValue(series, window)

_rsi(series, window) ==
    IF Len(series) < window + 1 THEN R(50) ELSE RsiValue(series, window)

\* str(x) of a float with at most one decimal digit
FloatStr(x) == ToString(x.i) \o "." \o ToString((x.n * 10) \div x.d)

\* ", ".join(reasons)
RECURSIVE Join(_)
Join(reasons) ==
    IF reasons = <<>> THEN ""
    ELSE IF Len(reasons) = 1 THEN reasons[1]
    ELSE reasons[1] \o ", " \o Join(Tail(reasons))

\* A faulty reading of the tag under the key "kind" (C9 as amended must
\* reject it).
CondType_KindKey(cond) == IF "kind" \in DOMAIN cond THEN cond["kind"] ELSE "None"

\* cond.get("type"); "None" stands for None, which equals no type name
CondType(cond) == IF "type" \in DOMAIN cond THEN cond["type"] ELSE "None"

\* One pass of the loop over rules["buy_if"]: the condition is counted
\* (with its label), is not counted, or the pass raises.
EvalCond(cond, close) ==
    IF CondType(cond) = "price_above_sma"
    THEN IF "window" \notin DOMAIN cond
         THEN [kind |-> "raise", exc |-> "KeyError"]
         ELSE LET w == cond["window"]
                  sma == _sma(close, w)
              IN  IF sma # NaN /\ RLess(sma, close[Len(close)])
                  THEN [kind |-> "hit", label |-> "price>" \o ToString(w) \o "SMA"]
                  ELSE [kind |-> "miss"]
    ELSE IF CondType(cond) = "rsi_below"
    THEN LET w == Get(cond, "window", DefaultRsiWindow)
             thr == Get(cond, "threshold", R(DefaultRsiThreshold))
             rsi == _rsi(close, w)
         IN  IF RLess(rsi, thr)
             THEN [kind |-> "hit",
                   label |-> "RSI" \o ToString(w) \o "<" \o FloatStr(thr)]
             ELSE [kind |-> "miss"]
    ELSE [kind |-> "miss"]

\* The loop: score and reasons after the conditions, or the exception.
RECURSIVE WalkConds(_, _, _, _)
WalkConds(conds, close, score, reasons) ==
    IF conds = <<>> THEN [kind |-> "ok", score |-> score, reasons |-> reasons]
    ELSE LET r == EvalCond(Head(conds), close)
         IN  IF r.kind = "raise" THEN r
             ELSE IF r.kind = "hit"
             THEN WalkConds(Tail(conds), close, score + 1, Append(reasons, r.label))
             ELSE WalkConds(Tail(conds), close, score, reasons)

\* df.empty or "close" not in df
NoData(df) == df.kind = "empty" \/ "close" \notin df.columns

\* A faulty confidence without the min (C8 must reject it).
Confidence_Unclamped(score) == Ratio(score, 2)

\* min(1.0, score / 2)
Confidence(score) == RMin(R(1), Ratio(score, 2))

\* the "simple mapping" from the score to the signal
SignalOf(ticker, score, reasons) ==
    IF score > 0
    THEN [ticker |-> ticker, action |-> "BUY", confidence |-> Confidence(score),
          reason |-> Join(reasons)]
    ELSE [ticker |-> ticker, action |-> "HOLD", confidence |-> R(0),
          reason |-> IF Join(reasons) = "" THEN "neutral" ELSE Join(reasons)]

\* A faulty evaluator that walks the rules before it looks at the data (C7
\* must reject it).
_signal_for_RulesFirst(ticker, rules, df) ==
    LET w == WalkConds(Get(rules, "buy_if", <<>>),
                       IF NoData(df) THEN <<>> ELSE df.close, 0, <<>>)
    IN  IF w.kind = "raise" THEN w
        ELSE IF NoData(df)
        THEN [kind |-> "ok",
              signal |-> [ticker |-> ticker, action |-> "HOLD",
                          confidence |-> R(0), reason |-> "no data"]]
        ELSE [kind |-> "ok", signal |-> SignalOf(ticker, w.score, w.reasons)]

\* _signal_for(ticker, rules), df being what _history(ticker) returns
_signal_for(ticker, rules, df) ==
    IF NoData(df)
    THEN [kind |-> "ok",
          signal |-> [ticker |-> ticker, action |-> "HOLD",
                      confidence |-> R(0), reason |-> "no data"]]
    ELSE LET w == WalkConds(Get(rules, "buy_if", <<>>), df.close, 0, <<>>)
         IN  IF w.kind = "raise" THEN w
             ELSE [kind |-> "ok", signal |-> SignalOf(ticker, w.score, w.reasons)]

\* The rule sets and the price histories the evaluator is called with.
MaxConds == 3
MaxLen == 3

SignalConds ==
    {[type |-> "price_above_sma", window |-> 3],
     [type |-> "price_above_sma", window |-> 2],
     [kind |-> "price_above_sma", window |-> 3],
     [type |-> "rsi_below", window |-> 2, threshold |-> R(35)],
     [type |-> "rsi_below", threshold |-> R(60)],
     [type |-> "price_above_sma"],
     [type |-> "volume_spike"]}

SignalRules ==
    {EmptyDict} \cup {[buy_if |-> c] : c \in SeqsUpTo(SignalConds, MaxConds)}

SignalCloses == {R(9), R(10), R(12)}

\* what _history returns: an empty frame, a frame without a close column,
\* or a frame of closes
SignalFrames ==
    {[kind |-> "empty", columns |-> {}, close |-> <<>>],
     [kind |-> "frame", columns |-> {"open", "volume"}, close |-> <<>>]}
    \cup {[kind |-> "frame", columns |-> {"open", "close", "volume"}, close |-> c] :
             c \in SeqsUpTo(SignalCloses, MaxLen) \ {<<>>}}

SignalInputs ==
    [kind : {"args"}, ticker : {"PLTR"}, rules : SignalRules, df : SignalFrames]

\* _signal_for is called and returns or raises.
SignalFor ==
    /\ sg_in # NoCall
    /\ sg_out = NoCall
    /\ sg_out' = _signal_for(sg_in.ticker, sg_in.rules, sg_in.df)
    /\ UNCHANGED <<sz_in, sz_out, tk_in, tk_out, sg_in, sc_in, sc_out,
                 ind_in, ind_out, au_in, au_out,
                 cacheVars,
                 appVars,
                 dashVars>>

InitSignal ==
    /\ sz_in = NoCall /\ sz_out = NoCall
    /\ tk_in = NoCall /\ tk_out = NoCall
    /\ sg_in \in SignalInputs /\ sg_out = NoCall
    /\ sc_in = NoCall /\ sc_out = NoCall
    /\ ind_in = NoCall /\ ind_out = NoCall
    /\ au_in = NoCall /\ au_out = NoCall
    /\ CacheIdle
    /\ AppIdle
    /\ DashIdle

NextSignal == SignalFor

SpecSignal == InitSignal /\ [][NextSignal]_vars

\* The history holds no price: it is empty or has no close column.
HistoryHasNoData(df) == df.kind = "empty" \/ "close" \notin df.columns

\* C7: when the price series is empty or has no closing-price column, the
\* evaluator returns HOLD, confidence 0.0, reason "no data", whatever the
\* rule set contains, and does not raise.
C7_NoDataSignal ==
    (sg_out.kind # "none" /\ HistoryHasNoData(sg_in.df)) =>
        sg_out = [kind |-> "ok",
                  signal |-> [ticker |-> sg_in.ticker, action |-> "HOLD",
                              confidence |-> R(0), reason |-> "no data"]]

\* No data, under a rule set whose first condition has no window (it makes
\* the evaluator raise KeyError as soon as there is data).
C7_Witness ==
    /\ sg_out.kind = "ok"
    /\ sg_in.df.kind = "frame" /\ "close" \notin sg_in.df.columns
    /\ "buy_if" \in DOMAIN sg_in.rules
    /\ Len(sg_in.rules["buy_if"]) = 2
    /\ sg_in.rules["buy_if"][1] = [type |-> "price_above_sma"]
    /\ sg_out.signal.reason = "no data"

\* A buy-condition is satisfied on the closes: the last close is above the
\* mean of the last `window` closes, or the RSI is below the threshold.
Satisfied(cond, close) ==
    \/ /\ "type" \in DOMAIN cond /\ cond["type"] = "price_above_sma"
       /\ cond["window"] <= Len(close)
       /\ RLess(RSum(LastN(close, cond["window"])),
                RMul(R(cond["window"]), close[Len(close)]))
    \/ /\ "type" \in DOMAIN cond /\ cond["type"] = "rsi_below"
       /\ RLess(_rsi(close, IF "window" \in DOMAIN cond THEN cond["window"] ELSE 14),
                IF "threshold" \in DOMAIN cond THEN cond["threshold"] ELSE R(35))

\* The label of a satisfied condition.
LabelOf(cond) ==
    IF cond["type"] = "price_above_sma"
    THEN "price>" \o ToString(cond["window"]) \o "SMA"
    ELSE "RSI" \o ToString(IF "window" \in DOMAIN cond THEN cond["window"] ELSE 14)
         \o "<" \o FloatStr(IF "threshold" \in DOMAIN cond THEN cond["threshold"] ELSE R(35))

\* The labels of the satisfied conditions among conds[k..], in order.
RECURSIVE SatisfiedLabels(_, _, _)
SatisfiedLabels(conds, close, k) ==
    IF k > Len(conds) THEN <<>>
    ELSE (IF Satisfied(conds[k], close) THEN <<LabelOf(conds[k])>> ELSE <<>>)
             \o SatisfiedLabels(conds, close, k + 1)

\* C8: with a non-empty price series the signal is BUY exactly when the
\* number of satisfied buy-conditions (score) is positive, with confidence
\* min(1.0, score/2), in [0,1], 0.5 for one and 1.0 for two or more, and
\* reason the satisfied labels joined by ", " in declared order; otherwise
\* HOLD, confidence 0.0, reason "neutral".
C8_SignalMapping ==
    (sg_out.kind = "ok" /\ ~HistoryHasNoData(sg_in.df)) =>
        LET conds == IF "buy_if" \in DOMAIN sg_in.rules THEN sg_in.rules["buy_if"]
                     ELSE <<>>
            score == Cardinality({k \in 1..Len(conds) :
                                     Satisfied(conds[k], sg_in.df.close)})
            sig == sg_out.signal
        IN  /\ sig.ticker = sg_in.ticker
            /\ (sig.action = "BUY") <=> (score > 0)
            /\ sig.action \in {"BUY", "HOLD"}
            /\ RLeq(R(0), sig.confidence) /\ RLeq(sig.confidence, R(1))
            /\ score > 0 =>
                   /\ sig.confidence = (IF score >= 2 THEN R(1) ELSE Ratio(1, 2))
                   /\ sig.reason = Join(SatisfiedLabels(conds, sg_in.df.close, 1))
            /\ score = 0 => sig.confidence = R(0) /\ sig.reason = "neutral"

\* Three conditions of which the first and the third are satisfied and the
\* second (RSI2 < 35 on rising closes) is not: BUY, 1.0, two labels.
C8_Witness ==
    /\ sg_out.kind = "ok"
    /\ sg_in.df.close = <<R(9), R(9), R(12)>>
    /\ "buy_if" \in DOMAIN sg_in.rules
    /\ Len(sg_in.rules["buy_if"]) = 3
    /\ sg_in.rules["buy_if"][2] = [type |-> "rsi_below", window |-> 2, threshold |-> R(35)]
    /\ sg_out.signal.action = "BUY"
    /\ sg_out.signal.confidence = R(1)
    /\ sg_out.signal.reason = "price>3SMA, RSI14<60.0"

\* The single condition {key: price_above_sma, window: N} is evaluated on
\* at least N closes whose last is above their N-period average.
SingleSmaCase(key, N) ==
    /\ sg_out.kind # "none"
    /\ ~HistoryHasNoData(sg_in.df)
    /\ "buy_if" \in DOMAIN sg_in.rules
    /\ Len(sg_in.rules["buy_if"]) = 1
    /\ DOMAIN sg_in.rules["buy_if"][1] = {key, "window"}
    /\ sg_in.rules["buy_if"][1][key] = "price_above_sma"
    /\ sg_in.rules["buy_if"][1]["window"] = N
    /\ Len(sg_in.df.close) >= N
    /\ RLess(RSum(LastN(sg_in.df.close, N)),
             RMul(R(N), sg_in.df.close[Len(sg_in.df.close)]))

BuyOnSma(N) ==
    sg_out = [kind |-> "ok",
              signal |-> [ticker |-> sg_in.ticker, action |-> "BUY",
                          confidence |-> Ratio(1, 2),
                          reason |-> "price>" \o ToString(N) \o "SMA"]]

\* C9 as stated: the condition {kind: price_above_sma, window: N} on a
\* series whose last close is above its N-period SMA yields BUY, 0.5,
\* "price>NSMA".
C9_KindKeyBuys == \A N \in {2, 3} : SingleSmaCase("kind", N) => BuyOnSma(N)

\* C9 as amended: the condition {type: price_above_sma, window: N} on such
\* a series yields BUY, 0.5, "price>NSMA".
C9_TypeKeyBuys == \A N \in {2, 3} : SingleSmaCase("type", N) => BuyOnSma(N)

\* N = 3, last close 12, SMA 10: reason "price>3SMA".
C9_Witness ==
    /\ SingleSmaCase("type", 3)
    /\ sg_in.df.close = <<R(9), R(9), R(12)>>
    /\ sg_out.kind = "ok"
    /\ sg_out.signal.reason = "price>3SMA"
    /\ sg_out.signal.action = "BUY"

-----------------------------------------------------------------------------
(* automation_tab.py: the indicators called on their own                   *)

\* The series and the windows _sma and _rsi are called with.
IndCloses == {R(9), R(10), R(11)}
IndWindows == 1..(MaxLen + 1)

IndicatorInputs ==
    [kind : {"sma", "rsi"}, series : SeqsUpTo(IndCloses, MaxLen), window : IndWindows]

\* _sma is called and returns.
Sma ==
    /\ ind_in # NoCall /\ ind_in.kind = "sma"
    /\ ind_out = NoCall
    /\ ind_out' = [kind |-> "ok", value |-> _sma(ind_in.series, ind_in.window)]
    /\ UNCHANGED <<sz_in, sz_out, tk_in, tk_out, sg_in, sg_out, sc_in, sc_out,
                 ind_in, au_in, au_out,
                 cacheVars,
                 appVars,
                 dashVars>>

\* _rsi is called and returns.
Rsi ==
    /\ ind_in # NoCall /\ ind_in.kind = "rsi"
    /\ ind_out = NoCall
    /\ ind_out' = [kind |-> "ok", value |-> _rsi(ind_in.series, ind_in.window)]
    /\ UNCHANGED <<sz_in, sz_out, tk_in, tk_out, sg_in, sg_out, sc_in, sc_out,
                 ind_in, au_in, au_out,
                 cacheVars,
                 appVars,
                 dashVars>>

InitIndicators ==
    /\ sz_in = NoCall /\ sz_out = NoCall
    /\ tk_in = NoCall /\ tk_out = NoCall
    /\ sg_in = NoCall /\ sg_out = NoCall
    /\ sc_in = NoCall /\ sc_out = NoCall
    /\ ind_in \in IndicatorInputs /\ ind_out = NoCall
    /\ au_in = NoCall /\ au_out = NoCall
    /\ CacheIdle
    /\ AppIdle
    /\ DashIdle

NextIndicators == Sma \/ Rsi

SpecIndicators == InitIndicators /\ [][NextIndicators]_vars

\* The sum of the last w values of the series s.
RECURSIVE SumOfLast(_, _)
SumOfLast(s, w) ==
    IF w = 0 THEN R(0) ELSE RAdd(s[Len(s) - w + 1], SumOfLast(s, w - 1))

\* C12: for window >= 1, _sma returns the arithmetic mean of the last
\* `window` values when the series has at least `window` values (a constant
\* series of value v gives v), and returns NaN, without raising, when the
\* series is shorter than `window`.
C12_MovingAverage ==
    (ind_in.kind = "sma" /\ ind_out # NoCall) =>
        LET s == ind_in.series
            w == ind_in.window
        IN  /\ ind_out.kind = "ok"
            /\ Len(s) < w => ind_out.value = NaN
            /\ Len(s) >= w =>
                   /\ ind_out.value # NaN
                   /\ RMul(ind_out.value, R(w)) = SumOfLast(s, w)
                   /\ \A v \in IndCloses :
                          (\A k \in 1..Len(s) : s[k] = v) => ind_out.value = v

\* The window is shorter than the series and the series is not constant:
\* the mean of the last 2 of 9, 10, 11 is 10.5.
C12_Witness ==
    /\ ind_in.kind = "sma"
    /\ ind_in.series = <<R(9), R(10), R(11)>>
    /\ ind_in.window = 2
    /\ ind_out = [kind |-> "ok", value |-> Ratio(21, 2)]

\* C13: for any series with fewer than window + 1 values, the empty series
\* included, _rsi returns exactly 50.0 and does not raise.
C13_RsiNeutralFloor ==
    (ind_in.kind = "rsi" /\ ind_out # NoCall /\ Len(ind_in.series) < ind_in.window + 1) =>
        ind_out = [kind |-> "ok", value |-> R(50)]

\* As many values as the window (one fewer than RSI needs), all rising.
C13_Witness ==
    /\ ind_in.kind = "rsi"
    /\ ind_in.window = 3
    /\ ind_in.series = <<R(9), R(10), R(11)>>
    /\ ind_out = [kind |-> "ok", value |-> R(50)]

-----------------------------------------------------------------------------
(* options_screener.py / dashboard_tab.py: filter_and_score_options        *)

\* A faulty mask that lets openInterest = 50 through (C4 must reject it).
FilterRow_OpenInterestAtLeast(row) ==
    /\ row.inTheMoney = FALSE
    /\ RLess(row.impliedVolatility, R(1))
    /\ row.volume > 10
    /\ row.openInterest >= 50

\* A faulty mask without the test on openInterest (C15 as amended must
\* reject it).
FilterRow_NoOpenInterest(row) ==
    /\ row.inTheMoney = FALSE
    /\ RLess(row.impliedVolatility, R(1))
    /\ row.volume > 10

\* the boolean mask of the calls table
FilterRow(row) ==
    /\ row.inTheMoney = FALSE
    /\ RLess(row.impliedVolatility, R(1))
    /\ row.volume > 10
    /\ row.openInterest > 50

\* A faulty score with the weights of the first two terms exchanged (C14
\* must reject it).
RawScore_SwappedWeights(row) ==
    RAdd(RAdd(RMul(RDiv(R(row.volume), R(row.openInterest)), Ratio(3, 10)),
              RMul(RSub(R(1), row.impliedVolatility), Ratio(4, 10))),
         RMul(RSub(R(1), RAbs(RSub(Ratio(1, 2), row.delta))), Ratio(3, 10)))

\* the composite score of a row, before rounding
RawScore(row) ==
    RAdd(RAdd(RMul(RDiv(R(row.volume), R(row.openInterest)), Ratio(4, 10)),
              RMul(RSub(R(1), row.impliedVolatility), Ratio(3, 10))),
         RMul(RSub(R(1), RAbs(RSub(Ratio(1, 2), row.delta))), Ratio(3, 10)))

\* the dict appended to scored_contracts
ScoredContract(row, exp_date) ==
    [contractSymbol |-> row.contractSymbol, strike |-> row.strike,
     expiration |-> exp_date, lastPrice |-> row.lastPrice,
     IV |-> row.impliedVolatility, volume |-> row.volume,
     openInterest |-> row.openInterest, delta |-> row.delta,
     score |-> PyRound(RawScore(row), 10000)]

\* the inner loop: the scored rows of one calls table, in table order
RECURSIVE ScoreTable(_, _)
ScoreTable(calls, exp_date) ==
    IF calls = <<>> THEN <<>>
    ELSE (IF FilterRow(Head(calls)) THEN <<ScoredContract(Head(calls), exp_date)>>
          ELSE <<>>) \o ScoreTable(Tail(calls), exp_date)

\* the outer loop: over the expirations, in the order of the dict
RECURSIVE ScoreChain(_)
ScoreChain(chain) ==
    IF chain = <<>> THEN <<>>
    ELSE ScoreTable(Head(chain).calls, Head(chain).exp) \o ScoreChain(Tail(chain))

\* the entries of rows (given by index) that come first in a descending /
\* ascending order of score
Highest(rows, S) == {i \in S : \A j \in S : RLeq(rows[j].score, rows[i].score)}
Lowest(rows, S) == {i \in S : \A j \in S : RLeq(rows[i].score, rows[j].score)}

RECURSIVE Ascending(_, _)
Ascending(rows, S) ==
    IF S = {} THEN {<<>>}
    ELSE UNION {{<<rows[i]>> \o rest : rest \in Ascending(rows, S \ {i})} :
                   i \in Lowest(rows, S)}

RECURSIVE Descending(_, _)
Descending(rows, S) ==
    IF S = {} THEN {<<>>}
    ELSE UNION {{<<rows[i]>> \o rest : rest \in Descending(rows, S \ {i})} :
                   i \in Highest(rows, S)}

\* A faulty sort, ascending (C5 must reject it).
SortValues_Ascending(rows) == Ascending(rows, 1..Len(rows))

\* df.sort_values("score", ascending=False): pandas' default sort is
\* quicksort, which is not stable, so rows of equal score may come out in
\* any order.
SortValues(rows) == Descending(rows, 1..Len(rows))

\* The results filter_and_score_options can end with.
filter_and_score_options(options_data) ==
    LET scored == ScoreChain(options_data.chain)
    IN  IF scored # <<>> /\ "delta" \notin options_data.columns
        THEN {[kind |-> "raise", exc |-> "KeyError", key |-> "delta"]}
        ELSE IF scored = <<>>
        THEN {[kind |-> "raise", exc |-> "KeyError", key |-> "score"]}
        ELSE {[kind |-> "ok", rows |-> r] : r \in SortValues(scored)}

\* The option chains the scorer is called with.
MaxRows == 2

OptionRow(sym, strike, itm, iv, vol, oi, delta) ==
    [contractSymbol |-> sym, strike |-> strike, lastPrice |-> R(1),
     inTheMoney |-> itm, impliedVolatility |-> iv, volume |-> vol,
     openInterest |-> oi, delta |-> delta]

OptionRows ==
    {OptionRow("A", 100, FALSE, Ratio(3, 10), 100, 100, Ratio(1, 2)),
     OptionRow("B", 105, FALSE, Ratio(3, 10), 400, 300, Ratio(3, 10)),
     OptionRow("E", 90, TRUE, Ratio(3, 10), 200, 100, Ratio(1, 2)),
     OptionRow("F", 110, FALSE, R(1), 200, 100, Ratio(1, 2)),
     OptionRow("G", 115, FALSE, Ratio(3, 10), 10, 100, Ratio(1, 2)),
     OptionRow("H", 120, FALSE, Ratio(3, 10), 100, 50, Ratio(1, 2))}

OptionTables == SeqsUpTo(OptionRows, MaxRows)

OptionChains ==
    {<<>>}
    \cup {<<[exp |-> "2026-01-16", calls |-> t]>> : t \in OptionTables}
    \cup {<<[exp |-> "2026-01-16", calls |-> t], [exp |-> "2026-02-20", calls |-> u]>> :
             t \in OptionTables, u \in OptionTables}

OptionColumns ==
    {"contractSymbol", "strike", "lastPrice", "impliedVolatility", "volume",
     "openInterest", "inTheMoney"}

ScorerInputs ==
    [kind : {"args"}, chain : OptionChains,
     columns : {OptionColumns, OptionColumns \cup {"delta"}}]

\* filter_and_score_options is called and returns or raises.
FilterAndScore ==
    /\ sc_in # NoCall
    /\ sc_out = NoCall
    /\ \E out \in filter_and_score_options(sc_in) : sc_out' = out
    /\ UNCHANGED <<sz_in, sz_out, tk_in, tk_out, sg_in, sg_out, sc_in,
                 ind_in, ind_out, au_in, au_out,
                 cacheVars,
                 appVars,
                 dashVars>>

InitScorer ==
    /\ sz_in = NoCall /\ sz_out = NoCall
    /\ tk_in = NoCall /\ tk_out = NoCall
    /\ sg_in = NoCall /\ sg_out = NoCall
    /\ sc_in \in ScorerInputs /\ sc_out = NoCall
    /\ ind_in = NoCall /\ ind_out = NoCall
    /\ au_in = NoCall /\ au_out = NoCall
    /\ CacheIdle
    /\ AppIdle
    /\ DashIdle

NextScorer == FilterAndScore

SpecScorer == InitScorer /\ [][NextScorer]_vars

\* The rows of the chain's calls tables that an output contract comes from:
\* <<e, j>> for row j of expiration e.
SourcesOf(c, chain) ==
    {p \in (1..Len(chain)) \X (1..MaxRows) :
        /\ p[2] <= Len(chain[p[1]].calls)
        /\ chain[p[1]].exp = c.expiration
        /\ chain[p[1]].calls[p[2]].contractSymbol = c.contractSymbol}

\* C4: no contract in the output has impliedVolatility >= 1.0, volume <= 10,
\* openInterest <= 50 or inTheMoney true; every scored contract has a
\* strictly positive openInterest (the divisor of volume/openInterest).
C4_FilterExclusive ==
    sc_out.kind = "ok" =>
        \A k \in 1..Len(sc_out.rows) :
            LET c == sc_out.rows[k]
            IN  /\ RLess(c.IV, R(1))
                /\ c.volume > 10
                /\ c.openInterest > 50
                /\ c.openInterest > 0
                /\ SourcesOf(c, sc_in.chain) # {}
                /\ \A p \in SourcesOf(c, sc_in.chain) :
                       sc_in.chain[p[1]].calls[p[2]].inTheMoney = FALSE

\* Four calls of which three fail one predicate each (in the money, IV 1.0,
\* open interest 50): the output holds the fourth alone.
C4_Witness ==
    /\ sc_out.kind = "ok"
    /\ Len(sc_out.rows) = 1
    /\ Len(sc_in.chain) = 2
    /\ Len(sc_in.chain[1].calls) = 2 /\ Len(sc_in.chain[2].calls) = 2
    /\ sc_in.chain[1].calls[1].inTheMoney
    /\ sc_in.chain[1].calls[2].openInterest = 50
    /\ sc_in.chain[2].calls[1].impliedVolatility = R(1)
    /\ sc_out.rows[1].contractSymbol = sc_in.chain[2].calls[2].contractSymbol

\* A call passes the filter of the scorer.
PassesFilter(row) ==
    /\ ~row.inTheMoney
    /\ RLess(row.impliedVolatility, R(1))
    /\ ~(row.volume <= 10)
    /\ ~(row.openInterest <= 50)

\* C5: the returned sequence is non-increasing in score and holds exactly
\* the calls, over all expirations, that pass the filter, each once.
C5_ScorerOrdering ==
    sc_out.kind = "ok" =>
        /\ \A k \in 1..(Len(sc_out.rows) - 1) :
               RLeq(sc_out.rows[k + 1].score, sc_out.rows[k].score)
        /\ \A k \in 1..Len(sc_out.rows) : SourcesOf(sc_out.rows[k], sc_in.chain) # {}
        /\ \A e \in 1..Len(sc_in.chain) : \A j \in 1..Len(sc_in.chain[e].calls) :
               LET row == sc_in.chain[e].calls[j]
                   same == {i \in 1..Len(sc_in.chain[e].calls) :
                               sc_in.chain[e].calls[i] = row}
                   outs == {k \in 1..Len(sc_out.rows) :
                               /\ sc_out.rows[k].expiration = sc_in.chain[e].exp
                               /\ sc_out.rows[k].contractSymbol = row.contractSymbol}
               IN  Cardinality(outs) = (IF PassesFilter(row) THEN Cardinality(same) ELSE 0)

\* Two expirations, four calls, one of them filtered out; the output has
\* the other three, the best score first and two of equal score after it.
C5_Witness ==
    /\ sc_out.kind = "ok"
    /\ Len(sc_in.chain) = 2
    /\ Len(sc_in.chain[1].calls) = 2 /\ Len(sc_in.chain[2].calls) = 2
    /\ sc_in.chain[1].calls[1].contractSymbol = "A"
    /\ sc_in.chain[2].calls[2].contractSymbol = "B"
    /\ Len(sc_out.rows) = 3
    /\ sc_out.rows[1].contractSymbol = "B"
    /\ RLess(sc_out.rows[2].score, sc_out.rows[1].score)
    /\ sc_out.rows[2].score = sc_out.rows[3].score
    /\ sc_out.rows[2].expiration # sc_out.rows[3].expiration

\* 0.4 * (volume / openInterest) + 0.3 * (1 - IV) + 0.3 * (1 - |0.5 - delta|)
\* from the fields of an output contract c
FormulaOf(c) ==
    LET liquidity == RMul(Ratio(4, 10), RDiv(R(c.volume), R(c.openInterest)))
        cheapness == RMul(Ratio(3, 10), RSub(R(1), c.IV))
        distance == IF RLess(c.delta, Ratio(1, 2)) THEN RSub(Ratio(1, 2), c.delta)
                    ELSE RSub(c.delta, Ratio(1, 2))
        balance == RMul(Ratio(3, 10), RSub(R(1), distance))
    IN  RAdd(liquidity, RAdd(cheapness, balance))

\* s is x rounded to 4 decimal places: a whole number m of ten-thousandths
\* with |m - 10000 * x| <= 1/2, m even on a tie.
IsRounded4(s, x) ==
    LET m == RMul(s, R(10000))
        twice == RMul(R(2), RAbs(RSub(m, RMul(R(10000), x))))
    IN  /\ m.n = 0
        /\ RLeq(twice, R(1))
        /\ twice = R(1) => m.i % 2 = 0

\* C14: every contract in the output has score = 0.4*(volume/openInterest)
\* + 0.3*(1 - impliedVolatility) + 0.3*(1 - |0.5 - delta|) rounded to 4
\* decimal places, computed from the fields of the call it comes from.
C14_ScoreFormula ==
    sc_out.kind = "ok" =>
        \A k \in 1..Len(sc_out.rows) :
            LET c == sc_out.rows[k]
            IN  /\ IsRounded4(c.score, FormulaOf(c))
                /\ \A p \in SourcesOf(c, sc_in.chain) :
                       LET row == sc_in.chain[p[1]].calls[p[2]]
                       IN  /\ c.IV = row.impliedVolatility
                           /\ c.volume = row.volume
                           /\ c.openInterest = row.openInterest
                           /\ c.delta = row.delta

\* A scored call whose formula value, 0.98333..., is not a multiple of
\* 0.0001 (volume 400, open interest 300, IV 0.3, delta 0.3): score 0.9833.
C14_Witness ==
    /\ sc_out.kind = "ok"
    /\ Len(sc_out.rows) = 2
    /\ sc_out.rows[1].volume = 400 /\ sc_out.rows[1].openInterest = 300
    /\ sc_out.rows[1].delta = Ratio(3, 10)
    /\ sc_out.rows[1].score = Ratio(9833, 10000)
    /\ sc_out.rows[2].score = Ratio(91, 100)

\* The call of the spec's example: out of the money, volume 100, open
\* interest 50, implied volatility 0.3, delta 0.5.
IsExampleCall(row) ==
    /\ row.inTheMoney = FALSE
    /\ row.volume = 100
    /\ row.openInterest = 50
    /\ row.impliedVolatility = Ratio(3, 10)
    /\ row.delta = Ratio(1, 2)

\* The chain given to the scorer holds the example call.
ChainHasExampleCall ==
    \E e \in 1..Len(sc_in.chain) : \E j \in 1..Len(sc_in.chain[e].calls) :
        IsExampleCall(sc_in.chain[e].calls[j])

\* C15 as stated: the example call (volume 100, open interest 50, IV 0.3,
\* delta 0.5, out of the money) given to the scorer appears in the scored
\* output with score 1.31.
C15_ExampleIsScored ==
    (sc_out # NoCall /\ ChainHasExampleCall) =>
        /\ sc_out.kind = "ok"
        /\ \E k \in 1..Len(sc_out.rows) :
               /\ sc_out.rows[k].volume = 100 /\ sc_out.rows[k].openInterest = 50
               /\ sc_out.rows[k].score = Ratio(131, 100)

\* C15 as amended: the example call never appears in the scored output,
\* because its open interest of 50 is not above 50; the score formula
\* applied to its fields gives 1.31.
C15_ExampleIsFiltered ==
    (sc_out # NoCall /\ ChainHasExampleCall) =>
        /\ sc_out.kind = "ok" =>
               \A k \in 1..Len(sc_out.rows) : sc_out.rows[k].openInterest # 50
        /\ \A e \in 1..Len(sc_in.chain) : \A j \in 1..Len(sc_in.chain[e].calls) :
               LET row == sc_in.chain[e].calls[j]
               IN  IsExampleCall(row) =>
                       /\ ~FilterRow(row)
                       /\ ScoredContract(row, sc_in.chain[e].exp).score = Ratio(131, 100)

\* The example call is in a chain with delta beside calls that pass the
\* filter: the scorer returns the others and not the example.
C15_Witness ==
    /\ sc_out.kind = "ok"
    /\ ChainHasExampleCall
    /\ Len(sc_in.chain) = 2
    /\ Len(sc_in.chain[1].calls) = 2 /\ Len(sc_in.chain[2].calls) = 2
    /\ IsExampleCall(sc_in.chain[1].calls[1])
    /\ Len(sc_out.rows) = 3

\* The rows given by the index set S in a stable descending order of score:
\* among the highest the one that comes first in rows is taken first.
RECURSIVE StableDescending(_, _)
StableDescending(rows, S) ==
    IF S = {} THEN <<>>
    ELSE LET i == CHOOSE x \in Highest(rows, S) : \A y \in Highest(rows, S) : x <= y
         IN  <<rows[i]>> \o StableDescending(rows, S \ {i})

\* C16 as stated: contracts of equal score appear in the output in their
\* input order (expirations in chain order, rows in table order): the
\* output is the stable descending sort of the scored contracts.
C16_StableTies ==
    sc_out.kind = "ok" =>
        LET scored == ScoreChain(sc_in.chain)
        IN  sc_out.rows = StableDescending(scored, 1..Len(scored))

\* C17 as stated: on a chain whose calls tables have no delta column the
\* scorer returns an empty result and does not raise.
C17_NoDeltaIsEmpty ==
    (sc_out # NoCall /\ "delta" \notin sc_in.columns) =>
        sc_out = [kind |-> "ok", rows |-> <<>>]

\* No call of the chain passes the filter (an empty chain included).
NothingPasses(chain) ==
    \A e \in 1..Len(chain) : \A j \in 1..Len(chain[e].calls) :
        ~PassesFilter(chain[e].calls[j])

\* C18 as stated: when the chain is empty or every call fails the filter,
\* the scorer returns an empty result and does not raise.
C18_NothingScoredIsEmpty ==
    (sc_out # NoCall /\ NothingPasses(sc_in.chain)) =>
        sc_out = [kind |-> "ok", rows |-> <<>>]

-----------------------------------------------------------------------------
(* automation_tab.py: one pass of render_automation_tab                    *)
(* The pass is sequential: prices, current values, signals, targets and    *)
(* tickets are computed one after the other from the strategy file, the    *)
(* session state and what the price provider answers.  Each ticker of the  *)
(* universe is asked for once, so the 300 s caches of _history and         *)
(* _get_stock_price play no part within a pass.  The strategy file is      *)
(* taken as read (_load_strategy has returned a dict); what the pass       *)
(* writes to the page is left out.                                         *)

UpperChars == "ABCDEFGHIJKLMNOPQRSTUVWXYZ"
LowerChars == "abcdefghijklmnopqrstuvwxyz"

CharLower(c) ==
    IF \E i \in 1..26 : SubSeq(UpperChars, i, i) = c
    THEN LET i == CHOOSE j \in 1..26 : SubSeq(UpperChars, j, j) = c
         IN  SubSeq(LowerChars, i, i)
    ELSE c

CharUpper(c) ==
    IF \E i \in 1..26 : SubSeq(LowerChars, i, i) = c
    THEN LET i == CHOOSE j \in 1..26 : SubSeq(LowerChars, j, j) = c
         IN  SubSeq(UpperChars, i, i)
    ELSE c

\* s.lower()
RECURSIVE StrLower(_)
StrLower(s) ==
    IF Len(s) = 0 THEN ""
    ELSE CharLower(SubSeq(s, 1, 1)) \o StrLower(SubSeq(s, 2, Len(s)))

\* s.upper()
RECURSIVE StrUpper(_)
StrUpper(s) ==
    IF Len(s) = 0 THEN ""
    ELSE CharUpper(SubSeq(s, 1, 1)) \o StrUpper(SubSeq(s, 2, Len(s)))

\* s.replace(old, new) for a one-character old
RECURSIVE StrReplace(_, _, _)
StrReplace(s, old, new) ==
    IF Len(s) = 0 THEN ""
    ELSE (IF SubSeq(s, 1, 1) = old THEN new ELSE SubSeq(s, 1, 1))
             \o StrReplace(SubSeq(s, 2, Len(s)), old, new)

\* A faulty key, the ticker as it is written (C20 must reject it).
_key_for_Verbatim(t) == t

\* 'ES=F' -> 'es_f', 'BTC-USD' -> 'btc_usd'
_key_for(t) == StrReplace(StrReplace(StrLower(t), "=", "_"), "-", "_")

\* pd.DataFrame()
EmptyFrame == [kind |-> "empty", columns |-> {}, close |-> <<>>]

\* A faulty _history that answers an old frame when the provider raises
\* (C19 must reject it).
_history_StaleOnError(answer) ==
    IF answer.kind = "raise"
    THEN [kind |-> "frame", columns |-> {"open", "close", "volume"},
          close |-> <<R(9), R(9), R(12)>>]
    ELSE IF answer.kind = "empty" THEN EmptyFrame
    ELSE [answer EXCEPT !.columns = {StrLower(c) : c \in answer.columns}]

\* _history(ticker), answer being what yf.Ticker(ticker).history(...) does:
\* it raises, or returns an empty frame or a frame
_history(answer) ==
    IF answer.kind = "raise" THEN EmptyFrame
    ELSE IF answer.kind = "empty" THEN EmptyFrame
    ELSE [answer EXCEPT !.columns = {StrLower(c) : c \in answer.columns}]

\* _get_stock_price(ticker), day being what history(period="1d")["Close"]
\* does: it raises or is a series
_get_stock_price(day) ==
    IF day.kind = "raise" THEN R(0)
    ELSE IF Len(day.close) = 0 THEN R(0)
    ELSE day.close[Len(day.close)]

\* the tickers of a list
TickersOf(universe) == {universe[i] : i \in 1..Len(universe)}

\* prices = {t: _get_stock_price(t) for t in universe}
PricesOf(universe, provider) ==
    [t \in TickersOf(universe) |-> _get_stock_price(provider[t].day)]

\* current_values: quantity * price for every row of the core holdings
\* table (a later row of the same ticker replaces an earlier one), or 0.0
\* for every ticker of the universe when there is no such table
CurrentValuesOf(core_df, universe, prices) ==
    IF core_df = <<>> THEN [t \in TickersOf(universe) |-> R(0)]
    ELSE LET held == {StrUpper(core_df[i]["Ticker"]) : i \in 1..Len(core_df)}
             last(t) == CHOOSE i \in 1..Len(core_df) :
                            /\ StrUpper(core_df[i]["Ticker"]) = t
                            /\ \A j \in 1..Len(core_df) :
                                   StrUpper(core_df[j]["Ticker"]) = t => j <= i
         IN  [t \in held |->
                 RMul(OrZero(Get(core_df[last(t)], "Quantity", R(0))),
                      Get(prices, t, R(0)))]

\* what _signal_for gives for each ticker of the universe, in order
RawSignals(universe, rules, provider) ==
    [i \in 1..Len(universe) |->
        _signal_for(universe[i], Get(rules, _key_for(universe[i]), [buy_if |-> <<>>]),
                    _history(provider[universe[i]].history))]

\* the signals appended by the loop, or the exception of the first
\* _signal_for that raises
RECURSIVE Collected(_)
Collected(results) ==
    IF results = <<>> THEN [kind |-> "ok", signals |-> <<>>]
    ELSE IF Head(results).kind = "raise" THEN Head(results)
    ELSE IF Collected(Tail(results)).kind = "raise" THEN Collected(Tail(results))
    ELSE [kind |-> "ok",
          signals |-> <<Head(results).signal>> \o Collected(Tail(results)).signals]

\* the loop over the universe
SignalsOf(universe, rules, provider) == Collected(RawSignals(universe, rules, provider))

\* the default of allocations.long_term_pct
DefaultLongTermPct == 40

\* what the pass ends with: the exception of the signal loop, or the
\* tables it shows
PassOutcome(sigs, targets, prices) ==
    IF sigs.kind = "raise" THEN sigs
    ELSE [kind |-> "ok", prices |-> prices, signals |-> sigs.signals,
          targets |-> targets,
          tickets |-> _build_tickets(sigs.signals, targets, prices)]

\* the call of _position_targets
TargetsOf(strat, session, universe, prices) ==
    _position_targets(
        OrZero(Get(session, "total_portfolio_value", R(0))),
        OrZero(Get(session, "cash_on_hand", R(0))),
        Get(Get(strat, "allocations", EmptyDict), "long_term_pct", R(DefaultLongTermPct)),
        Get(strat, "weights", EmptyDict),
        prices,
        CurrentValuesOf(Get(session, "core_holdings_df", <<>>), universe, prices),
        Get(strat, "risk", EmptyDict))

render_automation_tab(strat, session, provider) ==
    PassOutcome(
        SignalsOf(Get(strat, "universe", <<>>), Get(strat, "sop", EmptyDict), provider),
        TargetsOf(strat, session, Get(strat, "universe", <<>>),
                  PricesOf(Get(strat, "universe", <<>>), provider)),
        PricesOf(Get(strat, "universe", <<>>), provider))

\* The strategy files, the session states and the provider's answers of a
\* pass.
Universes ==
    {<<>>, <<"PLTR">>, <<"PLTR", "BTC-USD">>, <<"ES=F", "PLTR">>}

SmaRule == [buy_if |-> <<[type |-> "price_above_sma", window |-> 3]>>]
RsiRule == [buy_if |-> <<[type |-> "rsi_below", window |-> 2, threshold |-> R(35)]>>]
BothRule ==
    [buy_if |-> <<[type |-> "price_above_sma", window |-> 3],
                  [type |-> "rsi_below", window |-> 2, threshold |-> R(35)]>>]
NoWindowRule == [buy_if |-> <<[type |-> "price_above_sma"]>>]

\* the sop sections: a rule for every key; rules for pltr only; a rule
\* under the ticker as written, not under its key; a rule without window;
\* an entry without buy_if
SopSections ==
    {("pltr" :> SmaRule) @@ ("btc_usd" :> RsiRule) @@ ("es_f" :> SmaRule),
     ("pltr" :> BothRule),
     ("BTC-USD" :> SmaRule) @@ ("ES=F" :> SmaRule) @@ ("pltr" :> RsiRule),
     ("pltr" :> NoWindowRule) @@ ("btc_usd" :> SmaRule),
     ("btc_usd" :> EmptyDict) @@ ("pltr" :> SmaRule)}

StrategyWeights == DictsOver({Absent, Ratio(1, 2)}, {Absent, R(1)})

StrategyRisk ==
    [max_position_pct |-> Ratio(1, 2), max_buy_usd |-> R(1000),
     min_cash_reserve_usd |-> R(0)]

StrategyAllocations == [long_term_pct |-> R(100)]

\* the sections a strategy file has
StrategyKeySets ==
    {{"universe", "weights", "risk", "allocations", "sop"},
     {"universe", "weights", "sop"},
     {"universe", "weights", "risk", "allocations"},
     {"universe", "sop"},
     {"universe"}}

StrategiesOver(universe) ==
    {[k \in has |->
         IF k = "universe" THEN universe
         ELSE IF k = "weights" THEN w
         ELSE IF k = "risk" THEN StrategyRisk
         ELSE IF k = "allocations" THEN StrategyAllocations
         ELSE sop] : has \in StrategyKeySets, w \in StrategyWeights, sop \in SopSections}

Sessions ==
    {[k \in {} |-> R(0)],
     ("cash_on_hand" :> R(10000)) @@ ("total_portfolio_value" :> R(20000)),
     ("cash_on_hand" :> R(6000)) @@ ("total_portfolio_value" :> R(20000))
         @@ ("core_holdings_df" :> <<[Ticker |-> "pltr", Quantity |-> R(16)]>>)}

\* what history(period="6mo") answers
HistoryAnswers ==
    {[kind |-> "raise"],
     [kind |-> "empty", columns |-> {}, close |-> <<>>],
     [kind |-> "frame", columns |-> {"Open", "Close", "Volume"},
      close |-> <<R(9), R(9), R(12)>>],
     [kind |-> "frame", columns |-> {"Open", "Close", "Volume"},
      close |-> <<R(12), R(10), R(9)>>]}

LastPrice(t) == IF t = "PLTR" THEN R(250) ELSE IF t = "BTC-USD" THEN R(50000) ELSE R(5000)

\* what history(period="1d")["Close"] answers
DayAnswers(t) ==
    {[kind |-> "raise"], [kind |-> "series", close |-> <<>>],
     [kind |-> "series", close |-> <<LastPrice(t)>>]}

ProvidersOver(universe) ==
    {p \in [TickersOf(universe) ->
               [history : HistoryAnswers,
                day : UNION {DayAnswers(t) : t \in TickersOf(universe)}]] :
        \A t \in TickersOf(universe) : p[t].day \in DayAnswers(t)}

\* One pass of render_automation_tab.
RenderAutomationTab ==
    /\ au_in # NoCall
    /\ au_out = NoCall
    /\ au_out' = render_automation_tab(au_in.strat, au_in.session, au_in.provider)
    /\ UNCHANGED <<sz_in, sz_out, tk_in, tk_out, sg_in, sg_out, sc_in, sc_out,
                 ind_in, ind_out, au_in,
                 cacheVars,
                 appVars,
                 dashVars>>

InitAutomation ==
    /\ sz_in = NoCall /\ sz_out = NoCall
    /\ tk_in = NoCall /\ tk_out = NoCall
    /\ sg_in = NoCall /\ sg_out = NoCall
    /\ sc_in = NoCall /\ sc_out = NoCall
    /\ ind_in = NoCall /\ ind_out = NoCall
    /\ \E u \in Universes :
           \E s \in StrategiesOver(u), ss \in Sessions, p \in ProvidersOver(u) :
               au_in = [kind |-> "args", strat |-> s, session |-> ss, provider |-> p]
    /\ au_out = NoCall
    /\ CacheIdle
    /\ AppIdle
    /\ DashIdle

NextAutomation == RenderAutomationTab

SpecAutomation == InitAutomation /\ [][NextAutomation]_vars

\* The universe of the pass.
PassUniverse == IF "universe" \in DOMAIN au_in.strat THEN au_in.strat["universe"] ELSE <<>>

\* The provider fails or returns empty for ticker t, for its history and
\* for its last price.
ProviderFailedFor(t) ==
    /\ au_in.provider[t].history.kind \in {"raise", "empty"}
    /\ IF au_in.provider[t].day.kind = "raise" THEN TRUE
       ELSE au_in.provider[t].day.close = <<>>

\* What the provider answers for ticker t when it does not fail.
HealthyAnswers(t) ==
    {[history |-> [kind |-> "frame", columns |-> {"Open", "Close", "Volume"}, close |-> c],
      day |-> [kind |-> "series", close |-> <<LastPrice(t)>>]] :
        c \in {<<R(9), R(9), R(12)>>, <<R(12), R(10), R(9)>>}}

\* The key the rules of a ticker are looked up under.
NormalizedKey(t) ==
    IF t = "PLTR" THEN "pltr" ELSE IF t = "BTC-USD" THEN "btc_usd" ELSE "es_f"

\* The rule entry of ticker t has a price_above_sma condition without a
\* window, and t has price data: _signal_for raises KeyError for t.
BrokenRuleWithData(t) ==
    /\ au_in.provider[t].history.kind = "frame"
    /\ "sop" \in DOMAIN au_in.strat
    /\ NormalizedKey(t) \in DOMAIN au_in.strat["sop"]
    /\ "buy_if" \in DOMAIN au_in.strat["sop"][NormalizedKey(t)]
    /\ \E k \in 1..Len(au_in.strat["sop"][NormalizedKey(t)]["buy_if"]) :
           LET cond == au_in.strat["sop"][NormalizedKey(t)]["buy_if"][k]
           IN  /\ "type" \in DOMAIN cond /\ cond["type"] = "price_above_sma"
               /\ "window" \notin DOMAIN cond

\* C19: in one pass over a universe of distinct tickers, a ticker for which
\* the provider fails or returns empty gets price 0, signal HOLD "no data",
\* target 0 (or none) and no ticket; the failure does not make the pass
\* raise (a pass raises only for a rule without window on another ticker
\* that has data); and the signals of every other ticker are what they are
\* when the provider answers for the failed ticker.
C19_ProviderFailureIsolation ==
    au_out # NoCall =>
        \A i \in 1..Len(PassUniverse) :
            LET t == PassUniverse[i]
            IN  ProviderFailedFor(t) =>
                  /\ au_out.kind = "raise" =>
                         \E j \in 1..Len(PassUniverse) :
                             j # i /\ BrokenRuleWithData(PassUniverse[j])
                  /\ au_out.kind = "ok" =>
                         /\ au_out.prices[t] = R(0)
                         /\ Len(au_out.signals) = Len(PassUniverse)
                         /\ au_out.signals[i] =
                                [ticker |-> t, action |-> "HOLD",
                                 confidence |-> R(0), reason |-> "no data"]
                         /\ t \in DOMAIN au_out.targets => au_out.targets[t] = R(0)
                         /\ \A k \in 1..Len(au_out.tickets) : au_out.tickets[k].ticker # t
                         /\ \A a \in HealthyAnswers(t) :
                                LET healthy == SignalsOf(PassUniverse,
                                                   Get(au_in.strat, "sop", EmptyDict),
                                                   [au_in.provider EXCEPT ![t] = a])
                                IN  healthy.kind = "ok" =>
                                        \A j \in 1..Len(PassUniverse) :
                                            j # i => healthy.signals[j] = au_out.signals[j]

\* The provider raises for PLTR, first of the universe and with a rule and
\* a weight of its own, and answers for BTC-USD: PLTR is held for want of
\* data, BTC-USD is bought and is the only ticket.
C19_Witness ==
    /\ au_out.kind = "ok"
    /\ PassUniverse = <<"PLTR", "BTC-USD">>
    /\ au_in.provider["PLTR"].history.kind = "raise"
    /\ au_in.provider["PLTR"].day.kind = "raise"
    /\ "sop" \in DOMAIN au_in.strat /\ "pltr" \in DOMAIN au_in.strat["sop"]
    /\ "weights" \in DOMAIN au_in.strat /\ "PLTR" \in DOMAIN au_in.strat["weights"]
    /\ au_out.signals[1].reason = "no data"
    /\ au_out.signals[2].action = "BUY"
    /\ au_out.targets["PLTR"] = R(0)
    /\ Len(au_out.tickets) = 1
    /\ au_out.tickets[1].ticker = "BTC-USD"

\* The risk block with the built-in defaults written out.
BuiltInRisk ==
    [max_position_pct |-> Ratio(25, 100), max_buy_usd |-> R(2500),
     min_cash_reserve_usd |-> R(5000)]

\* The strategy with the risk block r.
WithRisk(strat, r) ==
    [k \in DOMAIN strat \cup {"risk"} |-> IF k = "risk" THEN r ELSE strat[k]]

\* C20: a ticker of the universe with no rule entry under its normalized
\* key gets HOLD with reason "neutral" (or "no data"); a ticker absent from
\* weights gets no target and no ticket; a missing risk block acts as
\* 0.25 / 2500 / 5000; and none of these gaps makes the pass raise (a pass
\* raises only for a ticker that has a rule entry, without window, and
\* data).
C20_ConfigurationGap ==
    au_out # NoCall =>
        /\ au_out.kind = "raise" =>
               \E j \in 1..Len(PassUniverse) : BrokenRuleWithData(PassUniverse[j])
        /\ au_out.kind = "ok" =>
               /\ \A i \in 1..Len(PassUniverse) :
                      LET t == PassUniverse[i]
                          hasRules == /\ "sop" \in DOMAIN au_in.strat
                                      /\ NormalizedKey(t) \in DOMAIN au_in.strat["sop"]
                          hasWeight == /\ "weights" \in DOMAIN au_in.strat
                                       /\ t \in DOMAIN au_in.strat["weights"]
                      IN  /\ ~hasRules =>
                                 au_out.signals[i] =
                                     [ticker |-> t, action |-> "HOLD", confidence |-> R(0),
                                      reason |-> IF au_in.provider[t].history.kind = "frame"
                                                 THEN "neutral" ELSE "no data"]
                          /\ ~hasWeight =>
                                 /\ t \notin DOMAIN au_out.targets
                                 /\ \A k \in 1..Len(au_out.tickets) :
                                        au_out.tickets[k].ticker # t
               /\ "risk" \notin DOMAIN au_in.strat =>
                      au_out = render_automation_tab(WithRisk(au_in.strat, BuiltInRisk),
                                                     au_in.session, au_in.provider)

\* No risk block, rules written under "BTC-USD" instead of "btc_usd" and no
\* weight for BTC-USD, whose closes rise above their average: BTC-USD is held
\* as neutral, without target, and PLTR gets its ticket of 8 shares (2000
\* dollars, under the default max_buy_usd of 2500).
C20_Witness ==
    /\ au_out.kind = "ok"
    /\ PassUniverse = <<"PLTR", "BTC-USD">>
    /\ "risk" \notin DOMAIN au_in.strat
    /\ "sop" \in DOMAIN au_in.strat
    /\ "BTC-USD" \in DOMAIN au_in.strat["sop"]
    /\ au_in.provider["BTC-USD"].history.kind = "frame"
    /\ au_in.provider["BTC-USD"].history.close = <<R(9), R(9), R(12)>>
    /\ au_out.signals[2].reason = "neutral"
    /\ DOMAIN au_out.targets = {"PLTR"}
    /\ au_out.targets["PLTR"] = R(2000)
    /\ Len(au_out.tickets) = 1
    /\ au_out.tickets[1].ticker = "PLTR"
    /\ au_out.tickets[1].qty = R(8)

-----------------------------------------------------------------------------
(* Further properties of _position_targets                                 *)

\* The price of ticker t is missing, None, zero or negative.
PriceUnknown(prices, t) ==
    \/ t \notin DOMAIN prices
    \/ prices[t] = None
    \/ (prices[t] # None /\ RLeq(prices[t], R(0)))

\* C22: for every ticker in weights whose price is missing, None, zero or
\* negative, _position_targets returns the target 0, whatever its weight,
\* the cash and the risk limits.
C22_UnknownPriceForcesZero ==
    sz_out.kind = "ok" =>
        \A t \in DOMAIN sz_in.weights :
            PriceUnknown(sz_in.prices, t) =>
                t \in DOMAIN sz_out.target /\ sz_out.target[t] = R(0)

\* A ticker of weight 1 with a negative price is zeroed although cash would
\* have been allotted to it, while the priced ticker keeps a positive target.
C22_Witness ==
    /\ sz_out.kind = "ok"
    /\ DOMAIN sz_in.weights = Tickers
    /\ sz_in.weights["BTC-USD"] = R(1)
    /\ sz_in.prices["BTC-USD"] = R(-1)
    /\ RLess(R(0), RawTargets(sz_in.cash_on_hand, sz_in.long_term_pct,
                              sz_in.weights)["BTC-USD"])
    /\ sz_out.target["BTC-USD"] = R(0)
    /\ RLess(R(0), sz_out.target["PLTR"])

\* The targets after the clamp loop, before the cash buffer, in the call
\* sz_in.
ClampedOfCall ==
    ClampTargets(RawTargets(sz_in.cash_on_hand, sz_in.long_term_pct, sz_in.weights),
                 sz_in.portfolio_value, sz_in.prices, sz_in.current_values,
                 sz_in.risk)

C23_WitnessTwo ==
    /\ sz_out.kind = "ok"
    /\ DOMAIN sz_out.target = Tickers
    /\ ClampedOfCall["BTC-USD"] = R(2400)
    /\ ClampedOfCall["PLTR"] = R(1200)
    /\ sz_out.target["BTC-USD"] = Ratio(2000, 3)
    /\ sz_out.target["PLTR"] = Ratio(1000, 3)

-----------------------------------------------------------------------------
(* filter_and_score_options on contracts of nearly equal score             *)

\* Contract B (score 0.98333...), a contract C that differs from it by an
\* implied volatility of 0.3001 instead of 0.3 (score 0.98330...), and
\* contract A (score 0.91).
CloseRows ==
    {r \in OptionRows : r.contractSymbol \in {"A", "B"}}
    \cup {OptionRow("C", 106, FALSE, Ratio(3001, 10000), 400, 300, Ratio(3, 10))}

CloseTables == SeqsUpTo(CloseRows, MaxRows)

CloseChains ==
    {<<>>}
    \cup {<<[exp |-> "2026-01-16", calls |-> t]>> : t \in CloseTables}
    \cup {<<[exp |-> "2026-01-16", calls |-> t], [exp |-> "2026-02-20", calls |-> u]>> :
             t \in CloseTables, u \in CloseTables}

InitScorerClose ==
    /\ sz_in = NoCall /\ sz_out = NoCall
    /\ tk_in = NoCall /\ tk_out = NoCall
    /\ sg_in = NoCall /\ sg_out = NoCall
    /\ sc_in \in [kind : {"args"}, chain : CloseChains,
                  columns : {OptionColumns, OptionColumns \cup {"delta"}}]
    /\ sc_out = NoCall
    /\ ind_in = NoCall /\ ind_out = NoCall
    /\ au_in = NoCall /\ au_out = NoCall
    /\ CacheIdle
    /\ AppIdle
    /\ DashIdle

SpecScorerClose == InitScorerClose /\ [][NextScorer]_vars

\* C24: the output is ordered by the unrounded score: a contract never comes
\* after one whose unrounded score is lower, also when both scores round to
\* the same 4-decimal value.
C24_SortsOnFullPrecision ==
    sc_out.kind = "ok" =>
        \A i, j \in 1..Len(sc_out.rows) :
            i < j => RLeq(FormulaOf(sc_out.rows[j]), FormulaOf(sc_out.rows[i]))

\* What the code does: the output is ordered by the score rounded to 4
\* decimal places, the value of the column it sorts on.
C24_SortsOnRoundedScore ==
    sc_out.kind = "ok" =>
        \A i, j \in 1..Len(sc_out.rows) :
            i < j => RLeq(PyRound(FormulaOf(sc_out.rows[j]), 10000),
                          PyRound(FormulaOf(sc_out.rows[i]), 10000))

\* C comes out before B although its unrounded score is lower: both are
\* 0.9833 in the score column.
C24_LowerScoreFirst ==
    /\ sc_out.kind = "ok"
    /\ Len(sc_out.rows) = 2
    /\ sc_out.rows[1].contractSymbol = "C"
    /\ sc_out.rows[2].contractSymbol = "B"
    /\ sc_out.rows[1].score = sc_out.rows[2].score
    /\ RLess(FormulaOf(sc_out.rows[1]), FormulaOf(sc_out.rows[2]))

-----------------------------------------------------------------------------
(* Further properties of _rsi                                              *)

\* The differences of the last `window` steps of the series.
LastSteps(series, window) == LastN(Diff(series), window)

\* No step of the last window goes down / up.
NoDownMove(series, window) ==
    \A k \in 1..window : RLeq(R(0), LastSteps(series, window)[k])
NoUpMove(series, window) ==
    \A k \in 1..window : RLeq(LastSteps(series, window)[k], R(0))

\* C25: for every series of non-negative prices with at least window + 1
\* values, _rsi returns a number (not NaN, no division by zero) between 0 and
\* 100, also when the last window has no down-move and when the series is
\* flat.
C25_RsiRange ==
    (/\ ind_in.kind = "rsi" /\ ind_out # NoCall
     /\ ind_in.window >= 1
     /\ Len(ind_in.series) >= ind_in.window + 1) =>
        /\ ind_out.kind = "ok"
        /\ ind_out.value # NaN
        /\ RLeq(R(0), ind_out.value)
        /\ RLeq(ind_out.value, R(100))

\* Two rising steps and no falling one: the average loss 0 is replaced by
\* 1e-9 and the RSI is 100 - 100/(1 + 1e9), just under 100.
C25_Witness ==
    /\ ind_in.kind = "rsi"
    /\ ind_in.window = 2
    /\ ind_in.series = <<R(9), R(10), R(11)>>
    /\ NoDownMove(ind_in.series, ind_in.window)
    /\ ind_out.kind = "ok"
    /\ ind_out.value = RSub(R(100), Ratio(100, 1000000001))
    /\ RLess(ind_out.value, R(100))

\* On a flat series the average gain is 0 too and the RSI is 0.
C25_WitnessFlat ==
    /\ ind_in.kind = "rsi"
    /\ ind_in.window = 2
    /\ ind_in.series = <<R(10), R(10), R(10)>>
    /\ NoDownMove(ind_in.series, ind_in.window)
    /\ NoUpMove(ind_in.series, ind_in.window)
    /\ ind_out = [kind |-> "ok", value |-> R(0)]

-----------------------------------------------------------------------------
(* _signal_for on histories too short for the indicators                   *)

\* Conditions with thresholds below, at and above the neutral value 50, and
\* a moving average over 3 closes.
ShortConds ==
    {[type |-> "rsi_below", window |-> 2, threshold |-> R(35)],
     [type |-> "rsi_below", window |-> 2, threshold |-> R(50)],
     [type |-> "rsi_below", window |-> 2, threshold |-> R(60)],
     [type |-> "rsi_below"],
     [type |-> "price_above_sma", window |-> 3]}

ShortRules == {[buy_if |-> c] : c \in SeqsUpTo(ShortConds, MaxConds)}

ShortFrames ==
    {[kind |-> "frame", columns |-> {"open", "close", "volume"}, close |-> c] :
        c \in SeqsUpTo(SignalCloses, MaxLen) \ {<<>>}}

InitSignalShort ==
    /\ sz_in = NoCall /\ sz_out = NoCall
    /\ tk_in = NoCall /\ tk_out = NoCall
    /\ sg_in \in [kind : {"args"}, ticker : {"PLTR"}, rules : ShortRules,
                  df : ShortFrames]
    /\ sg_out = NoCall
    /\ sc_in = NoCall /\ sc_out = NoCall
    /\ ind_in = NoCall /\ ind_out = NoCall
    /\ au_in = NoCall /\ au_out = NoCall
    /\ CacheIdle
    /\ AppIdle
    /\ DashIdle

SpecSignalShort == InitSignalShort /\ [][NextSignal]_vars

WindowOf(cond) == IF "window" \in DOMAIN cond THEN cond["window"] ELSE 14
ThresholdOf(cond) == IF "threshold" \in DOMAIN cond THEN cond["threshold"] ELSE R(35)

\* The series is too short for the condition's indicator.
TooShortFor(cond, close) ==
    IF cond["type"] = "rsi_below" THEN Len(close) < WindowOf(cond) + 1
    ELSE Len(close) < cond["window"]

\* What C27 says is counted: on a series that is too short, an rsi_below
\* condition when its threshold is above 50 and a price_above_sma condition
\* never; on a series that is long enough, the satisfied conditions.
CountedC27(cond, close) ==
    IF TooShortFor(cond, close)
    THEN cond["type"] = "rsi_below" /\ RLess(R(50), ThresholdOf(cond))
    ELSE Satisfied(cond, close)

RECURSIVE CountedLabelsC27(_, _, _)
CountedLabelsC27(conds, close, k) ==
    IF k > Len(conds) THEN <<>>
    ELSE (IF CountedC27(conds[k], close) THEN <<LabelOf(conds[k])>> ELSE <<>>)
             \o CountedLabelsC27(conds, close, k + 1)

\* C27: when the series has fewer than window + 1 values, an rsi_below
\* condition is counted as satisfied exactly when its threshold is greater
\* than 50, and a price_above_sma condition whose window exceeds the series
\* length is never counted: the signal's action, confidence and reason are
\* those of the conditions counted in this way.
C27_InsufficientHistoryIsNeutral ==
    sg_out.kind = "ok" =>
        LET conds == sg_in.rules["buy_if"]
            close == sg_in.df.close
            labels == CountedLabelsC27(conds, close, 1)
            sig == sg_out.signal
        IN  /\ (sig.action = "BUY") <=> (labels # <<>>)
            /\ sig.reason = (IF labels = <<>> THEN "neutral" ELSE Join(labels))
            /\ sig.confidence = RMin(R(1), Ratio(Len(labels), 2))

\* Two closes, under RSI conditions over a window of 2 with thresholds 60,
\* 50 and 35 and a 3-close moving average: only the threshold 60 counts.
C27_Witness ==
    /\ sg_out.kind = "ok"
    /\ sg_in.df.close = <<R(9), R(12)>>
    /\ sg_in.rules["buy_if"] =
           <<[type |-> "rsi_below", window |-> 2, threshold |-> R(60)],
             [type |-> "rsi_below", window |-> 2, threshold |-> R(50)],
             [type |-> "price_above_sma", window |-> 3]>>
    /\ sg_out.signal = [ticker |-> "PLTR", action |-> "BUY",
                        confidence |-> Ratio(1, 2), reason |-> "RSI2<60.0"]

\* The same signal as for a genuine RSI of 50 (one step down, one step up of
\* the same size): the threshold 60 counts, the threshold 50 does not.
C27_WitnessGenuine ==
    /\ sg_out.kind = "ok"
    /\ sg_in.df.close = <<R(10), R(9), R(10)>>
    /\ _rsi(sg_in.df.close, 2) = R(50)
    /\ sg_in.rules["buy_if"] =
           <<[type |-> "rsi_below", window |-> 2, threshold |-> R(60)],
             [type |-> "rsi_below", window |-> 2, threshold |-> R(50)]>>
    /\ sg_out.signal.reason = "RSI2<60.0"

-----------------------------------------------------------------------------
(* Further properties of _build_tickets                                    *)

\* what the ticket's quantity costs at its estimated price
CostOf(ticket) == RMul(ticket.qty, ticket.est_price)

\* C28 as stated: for every ticket emitted by _build_tickets,
\* qty * est_price <= dollars, for whole-unit tickers and for fractional
\* ("-USD") tickers alike.
C28_CostWithinAllocation ==
    tk_out.kind = "ok" =>
        \A k \in 1..Len(tk_out.tickets) :
            RLeq(CostOf(tk_out.tickets[k]), tk_out.tickets[k].dollars)

\* C28 as amended: a whole-unit ticket never costs more than its dollars (and
\* one unit more would); a "-USD" ticket costs its dollars to within half a
\* thousandth of a unit, 0.0005 * est_price, above or below.
C28_CostBound ==
    tk_out.kind = "ok" =>
        \A k \in 1..Len(tk_out.tickets) :
            LET ticket == tk_out.tickets[k]
                px == ticket.est_price
            IN  IF EndsWith(ticket.ticker, "-USD")
                THEN RLeq(RMul(R(2000), RAbs(RSub(CostOf(ticket), ticket.dollars))), px)
                ELSE /\ RLeq(CostOf(ticket), ticket.dollars)
                     /\ RLess(ticket.dollars, RAdd(CostOf(ticket), px))

\* 40 dollars of BTC-USD at 50000: 0.0008 units round up to 0.001, which
\* cost 50; beside it 1000/3 dollars of PLTR at 250 buy 1 share for 250.
C28_Witness ==
    /\ tk_out.kind = "ok"
    /\ Len(tk_out.tickets) = 2
    /\ tk_out.tickets[1].ticker = "BTC-USD"
    /\ tk_out.tickets[1].dollars = R(40)
    /\ tk_out.tickets[1].qty = Ratio(1, 1000)
    /\ CostOf(tk_out.tickets[1]) = R(50)
    /\ tk_out.tickets[2].ticker = "PLTR"
    /\ tk_out.tickets[2].dollars = Ratio(1000, 3)
    /\ CostOf(tk_out.tickets[2]) = R(250)

-----------------------------------------------------------------------------
(* The provider wrappers under st.cache_data                               *)
(* A wrapper decorated with st.cache_data(ttl=T) keeps what it returned    *)
(* and returns it again, without running its body, to every call made      *)
(* less than T seconds after the body ran; decorated with st.cache_data    *)
(* alone (ttl=None) the entry never expires.  One wrapper and one argument *)
(* are followed at a time: entries are kept per function and per argument. *)
(* What the body returns when the provider fails (an empty frame, 0.0,     *)
(* None or {}) is a return value like any other and is cached too.         *)

\* ttl=300 of the decorators
CacheTtl == 300

CachedWrappers ==
    {"automation_tab._history", "automation_tab._get_stock_price",
     "dashboard_tab.load_option_chain", "dashboard_tab.get_stock_price",
     "dashboard_tab.get_crypto_price", "options_screener.load_option_chain"}

\* the wrapper decorated with a bare @st.cache_data: ttl is None
NeverExpires(fn) == fn = "options_screener.load_option_chain"

\* The entry can still be served at time now.
IsFresh(entry, fn, now) == NeverExpires(fn) \/ now - entry.as_of < CacheTtl

\* the time advances by ClockStep seconds, MaxElapses times at most
ClockStep == 100
MaxElapses == 5

\* What the provider answers when the body runs: data as of now, or a
\* failure that the body turns into its empty value.
ProviderAnswers == {"data", "fail"}

\* The body of the wrapper runs at time now.
Fetched(answer, now) == [kind |-> "entry", as_of |-> now, ok |-> answer = "data"]

\* Time passes.
Elapse ==
    /\ ca_in # NoCall
    /\ clock < ClockStep * MaxElapses
    /\ clock' = clock + ClockStep
    /\ UNCHANGED <<sz_in, sz_out, tk_in, tk_out, sg_in, sg_out, sc_in, sc_out,
                 ind_in, ind_out, au_in, au_out, ca_in, cache, ca_out,
                 appVars,
                 dashVars>>

\* The wrapper is called and the cache has a fresh entry: the entry is
\* returned, the body does not run.
CallCached ==
    /\ ca_in # NoCall
    /\ cache # NoCall
    /\ IsFresh(cache, ca_in.fn, clock)
    /\ ca_out' = [kind |-> "ok", at |-> clock, value |-> cache, refetched |-> FALSE]
    /\ UNCHANGED <<sz_in, sz_out, tk_in, tk_out, sg_in, sg_out, sc_in, sc_out,
                 ind_in, ind_out, au_in, au_out, ca_in, clock, cache,
                 appVars,
                 dashVars>>

\* The wrapper is called and the cache has no entry or an expired one: the
\* body runs, what it returns is stored and returned.
CallRefetch ==
    /\ ca_in # NoCall
    /\ ~(cache # NoCall /\ IsFresh(cache, ca_in.fn, clock))
    /\ \E answer \in ProviderAnswers :
           /\ cache' = Fetched(answer, clock)
           /\ ca_out' = [kind |-> "ok", at |-> clock, value |-> Fetched(answer, clock),
                         refetched |-> TRUE]
    /\ UNCHANGED <<sz_in, sz_out, tk_in, tk_out, sg_in, sg_out, sc_in, sc_out,
                 ind_in, ind_out, au_in, au_out, ca_in, clock,
                 appVars,
                 dashVars>>

\* The Refresh Data button of the dashboard: st.cache_data.clear() empties
\* the cache of every wrapper of the process.
ClearCache ==
    /\ ca_in # NoCall
    /\ cache # NoCall
    /\ cache' = NoCall
    /\ UNCHANGED <<sz_in, sz_out, tk_in, tk_out, sg_in, sg_out, sc_in, sc_out,
                 ind_in, ind_out, au_in, au_out, ca_in, clock, ca_out,
                 appVars,
                 dashVars>>

InitCache ==
    /\ sz_in = NoCall /\ sz_out = NoCall
    /\ tk_in = NoCall /\ tk_out = NoCall
    /\ sg_in = NoCall /\ sg_out = NoCall
    /\ sc_in = NoCall /\ sc_out = NoCall
    /\ ind_in = NoCall /\ ind_out = NoCall
    /\ au_in = NoCall /\ au_out = NoCall
    /\ ca_in \in [kind : {"args"}, fn : CachedWrappers]
    /\ clock = 0 /\ cache = NoCall /\ ca_out = NoCall
    /\ AppIdle
    /\ DashIdle

NextCache == Elapse \/ CallCached \/ CallRefetch \/ ClearCache

SpecCache == InitCache /\ [][NextCache]_vars

\* The age, at the time of the call, of what the last call returned.
ServedAge == ca_out.at - ca_out.value.as_of

\* C21: for every cached provider wrapper, what a call returns was fetched
\* less than the freshness window (the 300 s of the decorators) before the
\* call: a call made after the window has elapsed refetches.
C21_BoundedStaleness ==
    ca_out.kind = "ok" => ServedAge < CacheTtl

\* The wrappers decorated with ttl=300 never serve anything older than 300 s:
\* a call 300 s or more after the fetch runs the body again.
C21_TtlWrappersAreBounded ==
    (ca_out.kind = "ok" /\ ~NeverExpires(ca_in.fn)) =>
        /\ ServedAge < CacheTtl
        /\ (cache # NoCall /\ clock - cache.as_of >= CacheTtl) =>
               ~IsFresh(cache, ca_in.fn, clock)

\* options_screener.load_option_chain serves, 500 s after the fetch and
\* without running its body, what it fetched at time 0.
C21_StaleChainServed ==
    /\ ca_in.fn = "options_screener.load_option_chain"
    /\ ca_out.kind = "ok"
    /\ ~ca_out.refetched
    /\ ServedAge = 500

-----------------------------------------------------------------------------
(* app.py: one run of the script                                           *)
(* The script imports the tabs through import_or_none, then renders the    *)
(* two tabs one after the other.  An import succeeds, raises, or succeeds  *)
(* on a module that lacks the function; a render function returns, raises  *)
(* an Exception, or (the dashboard only: st.rerun() at dashboard_tab.py    *)
(* 256, 450, 572, 674) raises Streamlit's rerun signal, which is a         *)
(* BaseException that ends the run so that the script starts again.        *)

ImportOutcomes == {"ok", "raise", "no_function"}
RenderOutcomes == {"ok", "raise"}
DashboardOutcomes == RenderOutcomes \cup {"rerun"}

AppInputs ==
    [kind : {"args"},
     dashboard_tab : ImportOutcomes, crystal_ball_tab : ImportOutcomes,
     automation_tab : ImportOutcomes,
     render_dashboard : DashboardOutcomes, render_crystal : RenderOutcomes]

\* the function object of that name
Callable(func_name) == [callable |-> func_name]

\* import_or_none(module_name, func_name): the function, or None with a
\* warning in the sidebar when the import raises
import_or_none(outcome, module_name, func_name) ==
    IF outcome = "ok" THEN [fn |-> Callable(func_name), warning |-> <<>>]
    ELSE IF outcome = "no_function" THEN [fn |-> None, warning |-> <<>>]
    ELSE [fn |-> None, warning |-> <<module_name>>]

\* A faulty tab body that calls the render function outside try/except
\* (C26 must reject it).
TabBody_NoTry(fn, outcome, on_error, fallback) ==
    IF fn = None THEN [content |-> fallback, escaped |-> "none"]
    ELSE IF outcome = "ok" THEN [content |-> <<fn.callable>>, escaped |-> "none"]
    ELSE IF outcome = "raise" THEN [content |-> <<>>, escaped |-> "Exception"]
    ELSE [content |-> <<>>, escaped |-> "RerunException"]

\* The body of a `with tab:` block: what it puts on the tab and the
\* exception that leaves it.
TabBody(fn, outcome, on_error, fallback) ==
    IF fn = None THEN [content |-> fallback, escaped |-> "none"]
    ELSE IF outcome = "ok" THEN [content |-> <<fn.callable>>, escaped |-> "none"]
    ELSE IF outcome = "raise" THEN [content |-> on_error, escaped |-> "none"]
    ELSE [content |-> <<>>, escaped |-> "RerunException"]

DashboardFallback == <<"Capital Allocator Dashboard (fallback)">>
DashboardOnError == <<"Dashboard error", "Capital Allocator Dashboard (fallback)">>
CrystalFallback == <<"Crystal Ball", "Tab is live">>
CrystalOnError == <<"Crystal Ball error", "Using stub content", "SOP stub online">>

\* render_dashboard = import_or_none("dashboard_tab", "render_dashboard")
ImportDashboard ==
    /\ app_pc = "import_dashboard"
    /\ LET r == import_or_none(app_in.dashboard_tab, "dashboard_tab", "render_dashboard")
       IN  app_out' = [app_out EXCEPT !.render_dashboard = r.fn,
                                      !.sidebar = @ \o r.warning]
    /\ app_pc' = "import_crystal"
    /\ UNCHANGED <<sz_in, sz_out, tk_in, tk_out, sg_in, sg_out, sc_in, sc_out,
                 ind_in, ind_out, au_in, au_out, cacheVars, app_in,
                 dashVars>>

\* render_crystal = import_or_none("crystal_ball_tab", "render_crystal_ball_tab")
ImportCrystal ==
    /\ app_pc = "import_crystal"
    /\ LET r == import_or_none(app_in.crystal_ball_tab, "crystal_ball_tab",
                               "render_crystal_ball_tab")
       IN  /\ app_out' = [app_out EXCEPT !.render_crystal = r.fn,
                                         !.sidebar = @ \o r.warning]
           /\ app_pc' = IF r.fn = None THEN "import_automation" ELSE "tab1"
    /\ UNCHANGED <<sz_in, sz_out, tk_in, tk_out, sg_in, sg_out, sc_in, sc_out,
                 ind_in, ind_out, au_in, au_out, cacheVars, app_in,
                 dashVars>>

\* if render_crystal is None:
\*     render_crystal = import_or_none("automation_tab", "render_automation_tab")
ImportAutomation ==
    /\ app_pc = "import_automation"
    /\ LET r == import_or_none(app_in.automation_tab, "automation_tab",
                               "render_automation_tab")
       IN  app_out' = [app_out EXCEPT !.render_crystal = r.fn,
                                      !.sidebar = @ \o r.warning]
    /\ app_pc' = "tab1"
    /\ UNCHANGED <<sz_in, sz_out, tk_in, tk_out, sg_in, sg_out, sc_in, sc_out,
                 ind_in, ind_out, au_in, au_out, cacheVars, app_in,
                 dashVars>>

\* with tab1: ...
RenderTab1 ==
    /\ app_pc = "tab1"
    /\ LET b == TabBody(app_out.render_dashboard, app_in.render_dashboard,
                        DashboardOnError, DashboardFallback)
       IN  /\ app_out' = [app_out EXCEPT !.tab1 = b.content, !.escaped = b.escaped]
           /\ app_pc' = IF b.escaped = "none" THEN "tab2" ELSE "done"
    /\ UNCHANGED <<sz_in, sz_out, tk_in, tk_out, sg_in, sg_out, sc_in, sc_out,
                 ind_in, ind_out, au_in, au_out, cacheVars, app_in,
                 dashVars>>

\* with tab2: ...
RenderTab2 ==
    /\ app_pc = "tab2"
    /\ LET b == TabBody(app_out.render_crystal, app_in.render_crystal,
                        CrystalOnError, CrystalFallback)
       IN  app_out' = [app_out EXCEPT !.tab2 = b.content, !.escaped = b.escaped]
    /\ app_pc' = "done"
    /\ UNCHANGED <<sz_in, sz_out, tk_in, tk_out, sg_in, sg_out, sc_in, sc_out,
                 ind_in, ind_out, au_in, au_out, cacheVars, app_in,
                 dashVars>>

InitApp ==
    /\ sz_in = NoCall /\ sz_out = NoCall
    /\ tk_in = NoCall /\ tk_out = NoCall
    /\ sg_in = NoCall /\ sg_out = NoCall
    /\ sc_in = NoCall /\ sc_out = NoCall
    /\ ind_in = NoCall /\ ind_out = NoCall
    /\ au_in = NoCall /\ au_out = NoCall
    /\ CacheIdle
    /\ app_in \in AppInputs
    /\ app_pc = "import_dashboard"
    /\ app_out = [render_dashboard |-> None, render_crystal |-> None,
                  sidebar |-> <<>>, tab1 |-> <<>>, tab2 |-> <<>>, escaped |-> "none"]
    /\ DashIdle

NextApp ==
    ImportDashboard \/ ImportCrystal \/ ImportAutomation \/ RenderTab1 \/ RenderTab2

SpecApp == InitApp /\ [][NextApp]_vars

\* The dashboard failed: its import raised, or its render function raised.
DashboardFailed ==
    \/ app_in.dashboard_tab = "raise"
    \/ app_in.dashboard_tab = "ok" /\ app_in.render_dashboard = "raise"

\* The second tab failed: the import of the module app.py takes the render
\* function from raised, or the render function raised.
CrystalFailed ==
    \/ app_in.crystal_ball_tab = "raise" /\ app_in.automation_tab = "raise"
    \/ app_out.render_crystal # None /\ app_in.render_crystal = "raise"

\* The run was ended by the dashboard's st.rerun().
Rerun == app_out.escaped = "RerunException"

\* C26: an exception raised while importing or rendering one tab is caught
\* and replaced by that tab's fallback content, the other tab is still
\* rendered, and no exception of a render function leaves the script.  (The
\* rerun signal of st.rerun() is not an error and is not caught.)
C26_TabIsolation ==
    /\ app_out # NoCall => app_out.escaped # "Exception"
    /\ (app_pc = "done" /\ ~Rerun) =>
           /\ DashboardFailed =>
                  /\ app_out.tab1 \in {DashboardFallback, DashboardOnError}
                  /\ app_out.tab2 # <<>>
                  /\ (~CrystalFailed /\ app_out.render_crystal # None) =>
                         app_out.tab2 = <<app_out.render_crystal.callable>>
           /\ CrystalFailed =>
                  /\ app_out.tab2 \in {CrystalFallback, CrystalOnError}
                  /\ app_out.tab1 # <<>>
                  /\ (~DashboardFailed /\ app_out.render_dashboard # None) =>
                         app_out.tab1 = <<app_out.render_dashboard.callable>>

\* The dashboard's render function raises and the automation tab, imported
\* because crystal_ball_tab failed to import, is rendered all the same.
C26_Witness ==
    /\ app_pc = "done"
    /\ app_in.dashboard_tab = "ok" /\ app_in.render_dashboard = "raise"
    /\ app_in.crystal_ball_tab = "raise"
    /\ app_out.sidebar = <<"crystal_ball_tab">>
    /\ app_out.tab1 = DashboardOnError
    /\ app_out.tab2 = <<"render_automation_tab">>
    /\ app_out.escaped = "none"

\* The run the dashboard ends with st.rerun(): the second tab is not
\* rendered in it.
C26_RerunEndsRun ==
    /\ app_pc = "done"
    /\ Rerun
    /\ app_out.tab2 = <<>>

-----------------------------------------------------------------------------
(* A pass of render_automation_tab over a universe that repeats a ticker   *)
(* The second _history / _get_stock_price call for the same ticker within  *)
(* the pass is answered from the 300 s cache, so both entries of the       *)
(* universe see the same answer of the provider.                           *)

RepeatingUniverses == {<<"PLTR", "PLTR">>, <<"PLTR", "BTC-USD", "PLTR">>}

InitAutomationRepeat ==
    /\ sz_in = NoCall /\ sz_out = NoCall
    /\ tk_in = NoCall /\ tk_out = NoCall
    /\ sg_in = NoCall /\ sg_out = NoCall
    /\ sc_in = NoCall /\ sc_out = NoCall
    /\ ind_in = NoCall /\ ind_out = NoCall
    /\ \E u \in RepeatingUniverses :
           \E s \in StrategiesOver(u), ss \in Sessions, p \in ProvidersOver(u) :
               au_in = [kind |-> "args", strat |-> s, session |-> ss, provider |-> p]
    /\ au_out = NoCall
    /\ CacheIdle
    /\ AppIdle
    /\ DashIdle

SpecAutomationRepeat == InitAutomationRepeat /\ [][NextAutomation]_vars

\* the sum of `dollars` over the tickets
RECURSIVE TicketDollars(_)
TicketDollars(tickets) ==
    IF tickets = <<>> THEN R(0)
    ELSE RAdd(Head(tickets).dollars, TicketDollars(Tail(tickets)))

\* max(0, cash_on_hand - min_cash_reserve_usd) of the pass
SpareOfPass ==
    Spare(OrZero(Get(au_in.session, "cash_on_hand", R(0))),
          Get(au_in.strat, "risk", EmptyDict))

\* No ticker is named twice in the universe.
NoRepeat(universe) ==
    \A i, j \in 1..Len(universe) : universe[i] = universe[j] => i = j

\* C29: in one automation pass the sum of `dollars` over all emitted tickets
\* is at most max(0, cash_on_hand - min_cash_reserve_usd), for any universe
\* list (including one that names a ticker more than once) and any
\* non-negative weights.
C29_TicketsWithinReserve ==
    au_out.kind = "ok" => RLeq(TicketDollars(au_out.tickets), SpareOfPass)

\* The bound does hold for a universe that names no ticker twice.
C29_WithinReserveWithoutRepeat ==
    (au_out.kind = "ok" /\ NoRepeat(PassUniverse)) =>
        RLeq(TicketDollars(au_out.tickets), SpareOfPass)

\* Universe [PLTR, PLTR]: the one target of 1000, all of the spare cash, is
\* spent by two tickets.
C29_TwoTicketsOneTarget ==
    /\ au_out.kind = "ok"
    /\ PassUniverse = <<"PLTR", "PLTR">>
    /\ SpareOfPass = R(1000)
    /\ DOMAIN au_out.targets = {"PLTR"}
    /\ au_out.targets["PLTR"] = R(1000)
    /\ Len(au_out.tickets) = 2
    /\ TicketDollars(au_out.tickets) = R(2000)

-----------------------------------------------------------------------------
(* dashboard_tab.py: the swing trades of a session, saved and loaded.      *)
(* A Python value is written with its type, so that a date and its ISO     *)
(* string are different values.                                            *)

PyDate(y, m, d) == [type |-> "date", year |-> y, month |-> m, day |-> d]

PyStr(s) == [type |-> "str", text |-> s]

\* n written in decimal with at least width digits
ZeroPadded(n, width) ==
    LET digits == ToString(n)
    IN  IF Len(digits) >= width THEN digits
        ELSE SubSeq("0000", 1, width - Len(digits)) \o digits

\* date.isoformat(): 'YYYY-MM-DD'
isoformat(d) ==
    PyStr(ZeroPadded(d.year, 4) \o "-" \o ZeroPadded(d.month, 2)
              \o "-" \o ZeroPadded(d.day, 2))

DecimalDigits == "0123456789"

DigitOf(c) == (CHOOSE i \in 1..10 : SubSeq(DecimalDigits, i, i) = c) - 1

RECURSIVE ParseDigits(_)
ParseDigits(s) ==
    IF Len(s) = 0 THEN 0
    ELSE ParseDigits(SubSeq(s, 1, Len(s) - 1)) * 10
             + DigitOf(SubSeq(s, Len(s), Len(s)))

\* datetime.fromisoformat(s).date()
fromisoformat(s) ==
    PyDate(ParseDigits(SubSeq(s.text, 1, 4)), ParseDigits(SubSeq(s.text, 6, 7)),
           ParseDigits(SubSeq(s.text, 9, 10)))

\* The dates the date input can give.
MaxTrades == 3

ExpiryDates == {PyDate(2026, 1, 16), PyDate(2026, 12, 5)}

\* the dictionary appended by "Add Swing Trade"
SwingTrade(expiration_date) ==
    [ticker |-> "SPY", strike_price |-> R(400),
     expiration_date |-> expiration_date, premium_paid |-> R(5)]

\* The first trade whose expiration_date is a string, 0 if there is none.
FirstString(trades) ==
    IF \E k \in 1..Len(trades) : trades[k].expiration_date.type = "str"
    THEN CHOOSE k \in 1..Len(trades) :
             /\ trades[k].expiration_date.type = "str"
             /\ \A j \in 1..(k - 1) : trades[j].expiration_date.type = "date"
    ELSE 0

\* The loop of save_data after its first upto trades: each of them has had
\* its expiration_date replaced by the ISO string.
Serialised(trades, upto) ==
    [k \in 1..Len(trades) |->
        IF k <= upto THEN [trades[k] EXCEPT !.expiration_date = isoformat(@)]
        ELSE trades[k]]

\* save_data(): data['swing_trades'] is the list the session holds, so the
\* loop rewrites the session's own trades; a trade that already holds a
\* string has no isoformat() and the loop raises outside the try.
save_data(session, file, write_ok) ==
    LET trades == session.swing_trades
        bad == FirstString(trades)
    IN  IF bad # 0
        THEN [session |-> [session EXCEPT !.swing_trades = Serialised(trades, bad - 1)],
              file |-> file, raised |-> "AttributeError"]
        ELSE LET after == [session EXCEPT !.swing_trades = Serialised(trades, Len(trades))]
             IN  [session |-> after,
                  file |-> IF write_ok THEN [swing_trades |-> after.swing_trades]
                           ELSE file,
                  raised |-> "none"]

\* load_data(): None without a file, else the document with dates parsed
load_data(file) ==
    IF file = None THEN None
    ELSE [swing_trades |->
             [k \in 1..Len(file.swing_trades) |->
                 [file.swing_trades[k] EXCEPT !.expiration_date = fromisoformat(@)]]]

\* days_until_expiration(expiration_date): str - date raises TypeError
days_until_expiration(expiration_date) ==
    IF expiration_date.type = "date" THEN "none" ELSE "TypeError"

\* The "Current Swing Trades" table: the loop over the session's trades.
SwingTable(trades) ==
    IF \E k \in 1..Len(trades) : days_until_expiration(trades[k].expiration_date) # "none"
    THEN "TypeError"
    ELSE "none"

\* What a run that got as far as the table ends with.
RunEnds(raised, session) ==
    [raised |-> IF raised # "none" THEN raised ELSE SwingTable(session.swing_trades)]

\* the default session of a first run without a data file
DefaultSession == [swing_trades |-> <<>>]

\* A run in which "Add Swing Trade" is pressed: append, save_data(), table.
RunAddSwingTrade ==
    /\ ds_session # NoCall
    /\ Len(ds_session.swing_trades) < MaxTrades
    /\ \E expiration_date \in ExpiryDates, write_ok \in BOOLEAN :
        LET appended == [ds_session EXCEPT !.swing_trades =
                             Append(@, SwingTrade(expiration_date))]
            saved == save_data(appended, ds_file, write_ok)
        IN  /\ ds_session' = saved.session
            /\ ds_file' = saved.file
            /\ ds_out' = RunEnds(saved.raised, saved.session)
    /\ UNCHANGED <<sz_in, sz_out, tk_in, tk_out, sg_in, sg_out, sc_in, sc_out,
                   ind_in, ind_out, au_in, au_out, cacheVars, appVars>>

\* A run in which a button that calls save_data() before the table is
\* pressed ("Save Data" in the sidebar).
RunSaveData ==
    /\ ds_session # NoCall
    /\ \E write_ok \in BOOLEAN :
        LET saved == save_data(ds_session, ds_file, write_ok)
        IN  /\ ds_session' = saved.session
            /\ ds_file' = saved.file
            /\ ds_out' = RunEnds(saved.raised, saved.session)
    /\ UNCHANGED <<sz_in, sz_out, tk_in, tk_out, sg_in, sg_out, sc_in, sc_out,
                   ind_in, ind_out, au_in, au_out, cacheVars, appVars>>

\* A run in which "Load Data" is pressed: with a file, the session is
\* updated and st.rerun() starts the run that renders the table.
RunLoadData ==
    /\ ds_session # NoCall
    /\ LET loaded_data == load_data(ds_file)
           session == IF loaded_data # None
                      THEN [ds_session EXCEPT !.swing_trades = loaded_data.swing_trades]
                      ELSE ds_session
       IN  /\ ds_session' = session
           /\ ds_out' = RunEnds("none", session)
    /\ UNCHANGED ds_file
    /\ UNCHANGED <<sz_in, sz_out, tk_in, tk_out, sg_in, sg_out, sc_in, sc_out,
                   ind_in, ind_out, au_in, au_out, cacheVars, appVars>>

\* A run in which "Clear All Swing Trades" is pressed; the button exists
\* only below a table that was rendered.
RunClearAll ==
    /\ ds_session # NoCall
    /\ ds_session.swing_trades # <<>>
    /\ ds_out.raised = "none"
    /\ \E write_ok \in BOOLEAN :
        LET saved == save_data([ds_session EXCEPT !.swing_trades = <<>>], ds_file, write_ok)
        IN  /\ ds_session' = saved.session
            /\ ds_file' = saved.file
            /\ ds_out' = RunEnds(saved.raised, saved.session)
    /\ UNCHANGED <<sz_in, sz_out, tk_in, tk_out, sg_in, sg_out, sc_in, sc_out,
                   ind_in, ind_out, au_in, au_out, cacheVars, appVars>>

\* The first run of a new browser session: load_data() or the defaults.
RunNewSession ==
    /\ ds_session # NoCall
    /\ LET loaded_data == load_data(ds_file)
           session == IF loaded_data # None
                      THEN [swing_trades |-> loaded_data.swing_trades]
                      ELSE DefaultSession
       IN  /\ ds_session' = session
           /\ ds_out' = RunEnds("none", session)
    /\ UNCHANGED ds_file
    /\ UNCHANGED <<sz_in, sz_out, tk_in, tk_out, sg_in, sg_out, sc_in, sc_out,
                   ind_in, ind_out, au_in, au_out, cacheVars, appVars>>

\* The first run of the first session: no data file yet.
InitDashboard ==
    /\ sz_in = NoCall /\ sz_out = NoCall
    /\ tk_in = NoCall /\ tk_out = NoCall
    /\ sg_in = NoCall /\ sg_out = NoCall
    /\ sc_in = NoCall /\ sc_out = NoCall
    /\ ind_in = NoCall /\ ind_out = NoCall
    /\ au_in = NoCall /\ au_out = NoCall
    /\ CacheIdle /\ AppIdle
    /\ ds_session = DefaultSession
    /\ ds_file = None
    /\ ds_out = [raised |-> "none"]

NextDashboard ==
    \/ RunAddSwingTrade \/ RunSaveData \/ RunLoadData \/ RunClearAll
    \/ RunNewSession

SpecDashboard == InitDashboard /\ [][NextDashboard]_vars

\* C30: after any sequence of add-swing-trade, save_data and load_data
\* operations every swing trade of the session has a date-valued
\* expiration_date, and the run that did the operation ends without an error.
C30_SessionKeepsDates ==
    ds_session # NoCall =>
        /\ \A k \in 1..Len(ds_session.swing_trades) :
               ds_session.swing_trades[k].expiration_date.type = "date"
        /\ ds_out.raised = "none"

\* C30: save_data changes nothing in the session state.
C30_SaveLeavesSession ==
    [][RunSaveData => ds_session' = ds_session]_vars

\* One "Add Swing Trade" on a fresh session: the trade is left holding the
\* ISO string and the table raises TypeError.
C30_AddLeavesString ==
    /\ ds_session # NoCall
    /\ Len(ds_session.swing_trades) = 1
    /\ ds_session.swing_trades[1].expiration_date = PyStr("2026-01-16")
    /\ ds_out.raised = "TypeError"

\* A later save_data() meets the string and raises AttributeError.
C30_SaveRaises ==
    /\ ds_session # NoCall
    /\ ds_out.raised = "AttributeError"

\* What does hold: a session that load_data has just filled holds dates,
\* and they are the dates that were saved.
C30_LoadGivesDates ==
    [][RunLoadData /\ ds_file # None =>
          /\ \A k \in 1..Len(ds_session'.swing_trades) :
                 ds_session'.swing_trades[k].expiration_date \in ExpiryDates
          /\ ds_out'.raised = "none"]_vars

-----------------------------------------------------------------------------
(* Any one of the functions is called once, or a cached wrapper is called  *)
(* over time.                                                              *)
Init ==
    \/ InitSizer \/ InitTickets \/ InitSignal \/ InitScorer \/ InitIndicators
    \/ InitAutomation \/ InitCache \/ InitScorerClose
    \/ InitApp \/ InitSignalShort \/ InitAutomationRepeat \/ InitDashboard

Next ==
    \/ PositionTargets \/ BuildTickets \/ SignalFor \/ FilterAndScore \/ Sma \/ Rsi
    \/ RenderAutomationTab
    \/ Elapse \/ CallCached \/ CallRefetch \/ ClearCache
    \/ ImportDashboard \/ ImportCrystal \/ ImportAutomation \/ RenderTab1 \/ RenderTab2
    \/ RunAddSwingTrade \/ RunSaveData \/ RunLoadData \/ RunClearAll \/ RunNewSession

Spec == Init /\ [][Next]_vars
====
